---- MODULE Spec2Model ----
(***************************************************************************)
(* Course-management backend: schedule utilities (horario.util.js),        *)
(* prerequisite evaluation (elegibilidad.service.js) and the selection     *)
(* verifier (seleccion.service.js).                                        *)
(*                                                                         *)
(* Conventions                                                             *)
(*  - HH:mm times are strings, parsed and printed as the code does.        *)
(*  - Module strings are ASCII: the en dash (U+2013) of the "solape" text  *)
(*    is written "-", and accented letters of messages are unaccented.     *)
(*  - JavaScript undefined / null / a Map miss is the value Undefined.     *)
(*  - Hours with two decimals are kept as integer hundredths of an hour.   *)
(***************************************************************************)
EXTENDS Integers, Sequences, FiniteSets, TLC

VARIABLES
  call,       \* the operation applied last (or to apply) with its arguments
  result,     \* [done |-> FALSE] before it ran, then [done, value] and, for
              \* the two services, queries: the collections they queried
  Materia,    \* stored courses (collection, in natural order)
  Historial,  \* stored history entries (collection, in natural order)
  RefreshToken, \* stored refresh tokens (collection, in natural order)
  now,        \* the clock, in the seconds of a token's iat and exp
  reqs,       \* the auth requests in flight: position, token, answer
  usados      \* history: tokens a refresh or logout has answered 200 for

vars == <<call, result, Materia, Historial, RefreshToken, now, reqs, usados>>

\* the state of the auth controller; no session exists and no auth request
\* runs in the specifications of the other controllers
auth == <<RefreshToken, now, reqs, usados>>
SinSesiones == RefreshToken = <<>> /\ now = 0 /\ reqs = <<>> /\ usados = {}

Undefined == "undefined"

(***************************************************************************)
(* Bounds of the model                                                     *)
(***************************************************************************)
MaxSlots == 3       \* slots in a day bucket handed to findDayConflicts
MaxTick == 4        \* minute values tried by intervalsOverlap: 540 + 30k
MaxPrevias == 2     \* prerequisites of the course handed to evaluarMateria
MaxHorarios == 1    \* slots stored on a course
MaxIds == 2         \* identifiers in a selection request

(***************************************************************************)
(* horario.util.js                                                         *)
(***************************************************************************)
DIAS == {"LUN", "MAR", "MIE", "JUE", "VIE", "SAB"}

isDia(d) == d \in DIAS

Digits == {"0", "1", "2", "3", "4", "5", "6", "7", "8", "9"}

DigitValue(c) ==
  CASE c = "0" -> 0 [] c = "1" -> 1 [] c = "2" -> 2 [] c = "3" -> 3
    [] c = "4" -> 4 [] c = "5" -> 5 [] c = "6" -> 6 [] c = "7" -> 7
    [] c = "8" -> 8 [] c = "9" -> 9

\* /^([01]\d|2[0-3]):([0-5]\d)$/
isHHMM(s) ==
  /\ Len(s) = 5
  /\ \/ SubSeq(s, 1, 1) \in {"0", "1"} /\ SubSeq(s, 2, 2) \in Digits
     \/ SubSeq(s, 1, 1) = "2" /\ SubSeq(s, 2, 2) \in {"0", "1", "2", "3"}
  /\ SubSeq(s, 3, 3) = ":"
  /\ SubSeq(s, 4, 4) \in {"0", "1", "2", "3", "4", "5"}
  /\ SubSeq(s, 5, 5) \in Digits

\* String.prototype.split(sep) for a one-character separator
RECURSIVE SplitFrom(_, _, _, _)
SplitFrom(s, sep, from, i) ==
  IF i > Len(s) THEN <<SubSeq(s, from, Len(s))>>
  ELSE IF SubSeq(s, i, i) = sep
       THEN <<SubSeq(s, from, i - 1)>> \o SplitFrom(s, sep, i + 1, i + 1)
       ELSE SplitFrom(s, sep, from, i + 1)

Split(s, sep) == SplitFrom(s, sep, 1, 1)

\* Number(str) for a string of decimal digits ("" is 0)
RECURSIVE NumberFrom(_, _, _)
NumberFrom(s, i, acc) ==
  IF i > Len(s) THEN acc
  ELSE NumberFrom(s, i + 1, acc * 10 + DigitValue(SubSeq(s, i, i)))

Number(s) == NumberFrom(s, 1, 0)

toMinutes(hhmm) ==
  LET parts == Split(hhmm, ":")
      h == Number(parts[1])
      m == Number(parts[2])
  IN  h * 60 + m

\* String.prototype.padStart(2, "0")
RECURSIVE padStart(_, _, _)
padStart(s, n, fill) == IF Len(s) >= n THEN s ELSE padStart(fill \o s, n, fill)

toHHMM(mins) ==
  LET h == mins \div 60
      m == mins % 60
  IN  padStart(ToString(h), 2, "0") \o ":" \o padStart(ToString(m), 2, "0")

Max(a, b) == IF a >= b THEN a ELSE b
Min(a, b) == IF a <= b THEN a ELSE b

intervalsOverlap_touching(aInicio, aFin, bInicio, bFin) ==
  Max(aInicio, bInicio) <= Min(aFin, bFin)

intervalsOverlap_asym(aInicio, aFin, bInicio, bFin) ==
  aInicio < Min(aFin, bFin)

intervalsOverlap(aInicio, aFin, bInicio, bFin) ==
  Max(aInicio, bInicio) < Min(aFin, bFin)

RECURSIVE insertByInicio_unstable(_, _)
insertByInicio_unstable(sorted, x) ==
  IF sorted = <<>> THEN <<x>>
  ELSE LET last == sorted[Len(sorted)]
       IN  IF toMinutes(last.inicio) - toMinutes(x.inicio) >= 0
           THEN Append(insertByInicio_unstable(SubSeq(sorted, 1, Len(sorted) - 1), x), last)
           ELSE Append(sorted, x)

\* [...daySlots].sort((x,y) => toMinutes(x.inicio) - toMinutes(y.inicio)):
\* a stable sort of a copy, ascending by start.
RECURSIVE insertByInicio(_, _)
insertByInicio(sorted, x) ==
  IF sorted = <<>> THEN <<x>>
  ELSE LET last == sorted[Len(sorted)]
       IN  IF toMinutes(last.inicio) - toMinutes(x.inicio) > 0
           THEN Append(insertByInicio(SubSeq(sorted, 1, Len(sorted) - 1), x), last)
           ELSE Append(sorted, x)

RECURSIVE sortFrom(_, _, _)
sortFrom(daySlots, k, sorted) ==
  IF k > Len(daySlots) THEN sorted
  ELSE sortFrom(daySlots, k + 1, insertByInicio(sorted, daySlots[k]))

sortByInicio_unsorted(daySlots) == daySlots

sortByInicio(daySlots) == sortFrom(daySlots, 1, <<>>)

slotDescriptor(S) ==
  [materia |-> S.materia, codigo |-> S.codigo, nombre |-> S.nombre,
   inicio |-> S.inicio, fin |-> S.fin]

EnDash == "-"

conflictRecord_endMinusStartOfA(A, B) ==
  LET a1 == toMinutes(A.inicio)
      a2 == toMinutes(A.fin)
      b1 == toMinutes(B.inicio)
      b2 == toMinutes(B.fin)
      overlapStart == Max(a1, b1)
      overlapEnd == Min(a2, b2)
  IN  [dia |-> A.dia, a |-> slotDescriptor(A), b |-> slotDescriptor(B),
       solapeMinutos |-> overlapEnd - a1,
       solape |-> toHHMM(a1) \o EnDash \o toHHMM(overlapEnd)]

conflictRecord(A, B) ==
  LET a1 == toMinutes(A.inicio)
      a2 == toMinutes(A.fin)
      b1 == toMinutes(B.inicio)
      b2 == toMinutes(B.fin)
      overlapStart == Max(a1, b1)
      overlapEnd == Min(a2, b2)
  IN  [dia |-> A.dia, a |-> slotDescriptor(A), b |-> slotDescriptor(B),
       solapeMinutos |-> overlapEnd - overlapStart,
       solape |-> toHHMM(overlapStart) \o EnDash \o toHHMM(overlapEnd)]

\* the inner loop over j, from j on, for a fixed i
RECURSIVE innerLoop(_, _, _, _)
innerLoop(slots, i, j, conflicts) ==
  IF j > Len(slots) THEN conflicts
  ELSE LET A == slots[i]
           B == slots[j]
           a1 == toMinutes(A.inicio)
           a2 == toMinutes(A.fin)
           b1 == toMinutes(B.inicio)
           b2 == toMinutes(B.fin)
       IN  IF intervalsOverlap(a1, a2, b1, b2)
           THEN innerLoop(slots, i, j + 1, Append(conflicts, conflictRecord(A, B)))
           ELSE IF b1 >= a2 THEN conflicts
                ELSE innerLoop(slots, i, j + 1, conflicts)

\* the outer loop over i, from i on
RECURSIVE outerLoop(_, _, _)
outerLoop(slots, i, conflicts) ==
  IF i > Len(slots) THEN conflicts
  ELSE outerLoop(slots, i + 1, innerLoop(slots, i, i + 1, conflicts))

findDayConflicts(daySlots) == outerLoop(sortByInicio(daySlots), 1, <<>>)

\* horarios || []: horarios is [array |-> TRUE, items |-> <<...>>] or, when
\* the caller passed no list, [array |-> FALSE]
orEmpty(horarios) == IF horarios.array THEN horarios.items ELSE <<>>

horasDesdeHorarios_roundEach(horarios) ==
  LET hs == orEmpty(horarios)
      total[k \in 0..Len(hs)] ==
        IF k = 0 THEN 0
        ELSE total[k - 1]
               + (10 * (toMinutes(hs[k].fin) - toMinutes(hs[k].inicio)) + 3) \div 6
  IN  total[Len(hs)]

\* Math.round((totalMins / 60) * 100) / 100, in hundredths of an hour
\* (Math.round is floor(x + 1/2))
horasDesdeHorarios(horarios) ==
  LET hs == orEmpty(horarios)
      totalMins[k \in 0..Len(hs)] ==
        IF k = 0 THEN 0
        ELSE totalMins[k - 1] + (toMinutes(hs[k].fin) - toMinutes(hs[k].inicio))
  IN  (10 * totalMins[Len(hs)] + 3) \div 6

(***************************************************************************)
(* Inputs of the schedule utilities                                        *)
(***************************************************************************)
MateriaIds == {"m1", "m2"}

codigoDe(id) == "COD-" \o id
nombreDe(id) == "Materia " \o id

\* minute values handed to intervalsOverlap
Minutos == {540 + 30 * k : k \in 0..MaxTick}

\* clock times of stored slots, and their minute of the day
Horas == {"08:05", "18:00", "19:00", "20:00", "21:00"}

MinutoDe(hhmm) ==
  CASE hhmm = "08:05" -> 485
    [] hhmm = "18:00" -> 1080
    [] hhmm = "18:10" -> 1090
    [] hhmm = "18:20" -> 1100
    [] hhmm = "18:50" -> 1130
    [] hhmm = "19:00" -> 1140
    [] hhmm = "19:30" -> 1170
    [] hhmm = "20:00" -> 1200
    [] hhmm = "20:15" -> 1215
    [] hhmm = "21:00" -> 1260

horarioValido_sinRango(h) ==
  /\ h.dia \in DIAS
  /\ isHHMM(h.inicio) /\ isHHMM(h.fin)

\* materias.controller: a slot is stored only when horarioValido accepts it
horarioValido(h) ==
  /\ h.dia \in DIAS
  /\ isHHMM(h.inicio) /\ isHHMM(h.fin)
  /\ toMinutes(h.inicio) < toMinutes(h.fin)

\* stored intervals: disjoint, touching, nested, equal-start and partly
\* overlapping pairs all occur among them
Intervalos ==
  {iv \in {<<"08:05", "18:00">>, <<"08:05", "19:00">>, <<"18:00", "19:00">>,
           <<"18:00", "20:00">>, <<"19:00", "20:00">>, <<"19:00", "21:00">>,
           <<"20:00", "21:00">>} :
     horarioValido([dia |-> "LUN", inicio |-> iv[1], fin |-> iv[2]])}

\* slots of one day as verificarSeleccion puts them in a bucket
SlotsDe(dia) ==
  {[materia |-> id, codigo |-> codigoDe(id), nombre |-> nombreDe(id),
    dia |-> dia, inicio |-> iv[1], fin |-> iv[2]] :
     id \in MateriaIds, iv \in Intervalos}

SeqsUpTo(S, n) == UNION {[1..k -> S] : k \in 0..n}

\* lists handed to horasDesdeHorarios: slots of 20, 40, 45 and 90 minutes,
\* or no list at all
DuracionSlots ==
  {h \in {[dia |-> "LUN", inicio |-> iv[1], fin |-> iv[2]] :
            iv \in {<<"18:00", "18:20">>, <<"18:10", "18:50">>,
                    <<"19:30", "20:15">>, <<"18:00", "19:30">>}} :
     horarioValido(h)}

HorariosArgs ==
  {[array |-> FALSE]} \cup
  {[array |-> TRUE, items |-> hs] : hs \in SeqsUpTo(DuracionSlots, MaxSlots)}

BucketDias == {"LUN", "SAB"}

NotDone == [done |-> FALSE]
Done(v) == [done |-> TRUE, value |-> v]

(***************************************************************************)
(* SpecHorario: the pure functions of horario.util.js applied to inputs    *)
(***************************************************************************)
InitHorario ==
  /\ \/ call \in {[op |-> "intervalsOverlap", aInicio |-> a1, aFin |-> a2,
                   bInicio |-> b1, bFin |-> b2] :
                     a1 \in Minutos, a2 \in Minutos, b1 \in Minutos, b2 \in Minutos}
     \/ \E dia \in BucketDias :
          call \in {[op |-> "findDayConflicts", daySlots |-> s] :
                      s \in SeqsUpTo(SlotsDe(dia), MaxSlots)}
     \/ call \in {[op |-> "horasDesdeHorarios", horarios |-> hs] : hs \in HorariosArgs}
  /\ result = NotDone
  /\ Materia = <<>>
  /\ Historial = <<>>
  /\ SinSesiones

Call_intervalsOverlap ==
  /\ call.op = "intervalsOverlap"
  /\ ~result.done
  /\ result' = Done(intervalsOverlap(call.aInicio, call.aFin, call.bInicio, call.bFin))
  /\ UNCHANGED <<call, Materia, Historial, auth>>

Call_findDayConflicts_sortInPlace ==
  /\ call.op = "findDayConflicts"
  /\ ~result.done
  /\ result' = Done(findDayConflicts(call.daySlots))
  /\ call' = [call EXCEPT !.daySlots = sortByInicio(@)]
  /\ UNCHANGED <<Materia, Historial, auth>>

\* call.daySlots is the caller's array, before and after the call
Call_findDayConflicts ==
  /\ call.op = "findDayConflicts"
  /\ ~result.done
  /\ result' = Done(findDayConflicts(call.daySlots))
  /\ UNCHANGED <<call, Materia, Historial, auth>>

Call_horasDesdeHorarios ==
  /\ call.op = "horasDesdeHorarios"
  /\ ~result.done
  /\ result' = Done(horasDesdeHorarios(call.horarios))
  /\ UNCHANGED <<call, Materia, Historial, auth>>

NextHorario == Call_intervalsOverlap \/ Call_findDayConflicts \/ Call_horasDesdeHorarios

SpecHorario == InitHorario /\ [][NextHorario]_vars

DoneOp(op) == call.op = op /\ result.done

(***************************************************************************)
(* Claims on horario.util.js                                               *)
(***************************************************************************)
\* the overlap test of the claims, on the minute of the day of each end
Solapan(a1, a2, b1, b2) == a1 < a2 /\ a1 < b2 /\ b1 < a2 /\ b1 < b2

SlotsSolapan(A, B) ==
  Solapan(MinutoDe(A.inicio), MinutoDe(A.fin), MinutoDe(B.inicio), MinutoDe(B.fin))

\* index pairs of a bucket whose slots overlap (the all-pairs check)
OverlapPairs(S) ==
  {pq \in (1..Len(S)) \X (1..Len(S)) : pq[1] < pq[2] /\ SlotsSolapan(S[pq[1]], S[pq[2]])}

PairKey(S, pq) == {slotDescriptor(S[pq[1]]), slotDescriptor(S[pq[2]])}
RecKey(r) == {r.a, r.b}

\* C1: findDayConflicts returns one record per overlapping unordered pair of
\* slots of the bucket and no other record (same bag of pairs as the
\* all-pairs check).
C1_AllPairs ==
  DoneOp("findDayConflicts") =>
    LET S == call.daySlots
        R == result.value
    IN  /\ Len(R) = Cardinality(OverlapPairs(S))
        /\ \A pq \in OverlapPairs(S) :
             Cardinality({k \in DOMAIN R : RecKey(R[k]) = PairKey(S, pq)})
               = Cardinality({xy \in OverlapPairs(S) : PairKey(S, xy) = PairKey(S, pq)})
        /\ \A k \in DOMAIN R : \E pq \in OverlapPairs(S) : RecKey(R[k]) = PairKey(S, pq)

\* a bucket given out of start order where the scan of the first sorted slot
\* reports a pair and then stops at a slot that starts after it ends
C1_Witness ==
  /\ DoneOp("findDayConflicts")
  /\ Len(call.daySlots) = 3
  /\ call.daySlots[1].inicio = "20:00"
  /\ call.daySlots[2].inicio = "18:00" /\ call.daySlots[2].fin = "19:00"
  /\ call.daySlots[3].inicio = "08:05" /\ call.daySlots[3].fin = "19:00"
  /\ Len(result.value) = 1

\* C3: every record has solapeMinutos = min(fin) - max(inicio) > 0 and
\* solape = HH:MM of max(inicio), dash, HH:MM of min(fin), zero padded.
C3_Window ==
  DoneOp("findDayConflicts") =>
    \A k \in DOMAIN result.value :
      LET r == result.value[k]
          ini == Max(MinutoDe(r.a.inicio), MinutoDe(r.b.inicio))
          fin == Min(MinutoDe(r.a.fin), MinutoDe(r.b.fin))
      IN  /\ r.solapeMinutos = fin - ini
          /\ r.solapeMinutos > 0
          /\ Len(r.solape) = 11
          /\ \E s \in Horas, e \in Horas :
               /\ MinutoDe(s) = ini /\ MinutoDe(e) = fin
               /\ r.solape = s \o EnDash \o e

\* LUN 18:00-20:00 against LUN 19:00-21:00: one conflict, 60 minutes, 19:00-20:00
C3_Example ==
  ( /\ DoneOp("findDayConflicts")
    /\ Len(call.daySlots) = 2
    /\ \E p \in 1..2 :
         /\ call.daySlots[p].inicio = "18:00" /\ call.daySlots[p].fin = "20:00"
         /\ call.daySlots[3 - p].inicio = "19:00" /\ call.daySlots[3 - p].fin = "21:00" )
  => /\ Len(result.value) = 1
     /\ result.value[1].solapeMinutos = 60
     /\ result.value[1].solape = "19:00" \o EnDash \o "20:00"

C3_WindowAndExample == C3_Window /\ C3_Example

\* the example of the claim, and a window whose start needs a leading zero
C3_Witness ==
  /\ DoneOp("findDayConflicts")
  /\ Len(call.daySlots) = 3
  /\ call.daySlots[1].dia = "LUN"
  /\ call.daySlots[1].inicio = "19:00" /\ call.daySlots[1].fin = "21:00"
  /\ call.daySlots[2].inicio = "18:00" /\ call.daySlots[2].fin = "20:00"
  /\ call.daySlots[3].inicio = "08:05" /\ call.daySlots[3].fin = "18:00"
  /\ Len(result.value) = 1
  /\ result.value[1].solapeMinutos = 60

\* C4: intervalsOverlap is true exactly when max(starts) < min(ends), which
\* for half-open intervals is when some minute lies in both; intervals that
\* only touch do not overlap.
C4_HalfOpen ==
  DoneOp("intervalsOverlap") =>
    LET a1 == call.aInicio
        a2 == call.aFin
        b1 == call.bInicio
        b2 == call.bFin
    IN  /\ result.value = Solapan(a1, a2, b1, b2)
        /\ result.value = (\E t \in Minutos : a1 <= t /\ t < a2 /\ b1 <= t /\ t < b2)
        /\ (a2 = b1 \/ b2 = a1) => (result.value = FALSE)

C4_Witness ==
  /\ DoneOp("intervalsOverlap")
  /\ call.aInicio = 540 /\ call.aFin = 600 /\ call.bInicio = 600 /\ call.bFin = 660
  /\ result.value = FALSE

\* C5: intervalsOverlap gives the same answer with the two intervals swapped.
C5_Symmetric ==
  DoneOp("intervalsOverlap") =>
    result.value = intervalsOverlap(call.bInicio, call.bFin, call.aInicio, call.aFin)

C5_Witness ==
  /\ DoneOp("intervalsOverlap")
  /\ call.aInicio = 540 /\ call.aFin = 600 /\ call.bInicio = 570 /\ call.bFin = 660
  /\ result.value = TRUE

(***************************************************************************)
(* elegibilidad.service.js                                                 *)
(***************************************************************************)
LEVEL == [PENDIENTE |-> 0, EN_CURSO |-> 1, CURSADO |-> 2, APROBADO |-> 3]

\* a value that || replaces by its right operand
Falsy(x) == x \in {Undefined, ""}

LevelOf_aExamenAsCursado(key) ==
  IF key = "A_EXAMEN" THEN LEVEL.CURSADO
  ELSE IF key \in DOMAIN LEVEL THEN LEVEL[key] ELSE 0

\* LEVEL[key] ?? 0
LevelOf(key) == IF key \in DOMAIN LEVEL THEN LEVEL[key] ELSE 0

cumplePrevia_anyRank(previaTipo, estadoPrev) ==
  LET lvl == LevelOf(IF Falsy(estadoPrev) THEN "PENDIENTE" ELSE estadoPrev)
  IN  IF previaTipo = "CURSO" THEN lvl >= LEVEL.CURSADO
      ELSE IF previaTipo = "EXAMEN" THEN lvl >= LEVEL.CURSADO
      ELSE FALSE

cumplePrevia_exactRank(previaTipo, estadoPrev) ==
  LET lvl == LevelOf(IF Falsy(estadoPrev) THEN "PENDIENTE" ELSE estadoPrev)
  IN  IF previaTipo = "CURSO" THEN lvl = LEVEL.CURSADO
      ELSE IF previaTipo = "EXAMEN" THEN lvl = LEVEL.APROBADO
      ELSE FALSE

cumplePrevia(previaTipo, estadoPrev) ==
  LET lvl == LevelOf(IF Falsy(estadoPrev) THEN "PENDIENTE" ELSE estadoPrev)
  IN  IF previaTipo = "CURSO" THEN lvl >= LEVEL.CURSADO
      ELSE IF previaTipo = "EXAMEN" THEN lvl >= LEVEL.APROBADO
      ELSE FALSE

\* Map.prototype.get on the history map (a function on the keys it holds)
MapGet(map, key) == IF key \in DOMAIN map THEN map[key] ELSE Undefined

\* The target of a prerequisite, p.materia, is one of
\*   [kind |-> "doc", _id, codigo, nombre, semestre]   populated
\*   [kind |-> "id", _id]                               an ObjectId
\*   [kind |-> "null"]                                  populate found no course
\* p.materia?._id || p.materia
previaMateriaIdOf(p) == IF p.materia.kind = "null" THEN Undefined ELSE p.materia._id

\* String(x) of an identifier, or of null
StringOf(x) == IF x = Undefined THEN "null" ELSE x

previaRef_idOnly(p) == StringOf(previaMateriaIdOf(p))

\* p.materia?.codigo || previaMateriaId, as printed in a template string
previaRef(p) ==
  IF p.materia.kind = "doc" /\ ~Falsy(p.materia.codigo) THEN p.materia.codigo
  ELSE StringOf(previaMateriaIdOf(p))

previaDetalle(p, ok, estadoPrev) ==
  [tipo |-> p.tipo,
   materia |-> IF p.materia.kind = "doc"
                 THEN [_id |-> p.materia._id, codigo |-> p.materia.codigo,
                       nombre |-> p.materia.nombre, semestre |-> p.materia.semestre]
               ELSE IF p.materia.kind = "id"
                 THEN [_id |-> p.materia._id, codigo |-> Undefined,
                       nombre |-> Undefined, semestre |-> Undefined]
               ELSE Undefined,
   cumplida |-> ok,
   estadoActual |-> estadoPrev]

MotivoAprobada == "La materia ya esta APROBADA."

motivosIniciales_none(estadoEnMateria) == <<>>

\* if (estadoEnMateria === "APROBADO") motivos.push(...)
motivosIniciales(estadoEnMateria) ==
  IF estadoEnMateria = "APROBADO" THEN <<MotivoAprobada>> ELSE <<>>

MotivoCurso(ref) == "Falta CURSAR/APROBAR la previa: " \o ref
MotivoExamen(ref) == "Falta APROBAR EXAMEN de la previa: " \o ref

\* one pass of the loop over materiaDoc.previas: acc = [motivos, previas]
previaStep(acc, p, mapEstadoUsuario) ==
  LET previaMateriaId == previaMateriaIdOf(p)
      got == MapGet(mapEstadoUsuario, StringOf(previaMateriaId))
      estadoPrev == IF Falsy(got) THEN "PENDIENTE" ELSE got
      ok == cumplePrevia(p.tipo, estadoPrev)
      motivos1 == IF ~ok /\ p.tipo = "CURSO"
                    THEN Append(acc.motivos, MotivoCurso(previaRef(p)))
                    ELSE acc.motivos
      motivos2 == IF ~ok /\ p.tipo = "EXAMEN"
                    THEN Append(motivos1, MotivoExamen(previaRef(p)))
                    ELSE motivos1
  IN  [motivos |-> motivos2,
       previas |-> Append(acc.previas, previaDetalle(p, ok, estadoPrev))]

RECURSIVE previasLoop(_, _, _, _)
previasLoop(previas, k, acc, mapEstadoUsuario) ==
  IF k > Len(previas) THEN acc
  ELSE previasLoop(previas, k + 1, previaStep(acc, previas[k], mapEstadoUsuario),
                   mapEstadoUsuario)

elegibleDe_atMostOne(motivos) == Len(motivos) <= 1

\* const elegible = motivos.length === 0
elegibleDe(motivos) == Len(motivos) = 0

evaluarMateria(materiaDoc, mapEstadoUsuario) ==
  LET got == MapGet(mapEstadoUsuario, materiaDoc._id)
      estadoEnMateria == IF Falsy(got) THEN "PENDIENTE" ELSE got
      motivos0 == motivosIniciales(estadoEnMateria)
      acc == previasLoop(materiaDoc.previas, 1,
                         [motivos |-> motivos0, previas |-> <<>>], mapEstadoUsuario)
  IN  [materia |-> [_id |-> materiaDoc._id, codigo |-> materiaDoc.codigo,
                    nombre |-> materiaDoc.nombre, semestre |-> materiaDoc.semestre,
                    creditos |-> materiaDoc.creditos],
       estadoActual |-> estadoEnMateria,
       elegible |-> elegibleDe(acc.motivos),
       motivos |-> acc.motivos,
       previas |-> acc.previas]

(***************************************************************************)
(* Inputs of the prerequisite evaluator                                    *)
(***************************************************************************)
\* the persisted enum of Historial.estado
EstadosHistorial == {"PENDIENTE", "EN_CURSO", "CURSADO", "A_EXAMEN", "APROBADO"}

\* CURSO and EXAMEN are the kinds of the schema; OTRO is any other value
Tipos == {"CURSO", "EXAMEN", "OTRO"}

PreviaTargets ==
  {[kind |-> "doc", _id |-> "x1", codigo |-> codigoDe("x1"),
    nombre |-> nombreDe("x1"), semestre |-> 1],
   [kind |-> "id", _id |-> "x2"],
   [kind |-> "null"]}

PreviaVals == {[tipo |-> t, materia |-> m] : t \in Tipos, m \in PreviaTargets}

MateriaDocY(previas) ==
  [_id |-> "y", codigo |-> codigoDe("y"), nombre |-> nombreDe("y"),
   semestre |-> 2, creditos |-> 8, previas |-> previas, horarios |-> <<>>]

\* history maps: any status on any subset of the course and its targets
MapasEstado == UNION {[D -> EstadosHistorial] : D \in SUBSET {"y", "x1", "x2"}}

(***************************************************************************)
(* SpecElegibilidad: cumplePrevia and evaluarMateria applied to inputs     *)
(***************************************************************************)
InitElegibilidad ==
  /\ \/ call \in {[op |-> "cumplePrevia", previaTipo |-> t, estadoPrev |-> e] :
                    t \in Tipos, e \in EstadosHistorial \cup {Undefined}}
     \/ call \in {[op |-> "evaluarMateria", materiaDoc |-> MateriaDocY(ps),
                   mapEstadoUsuario |-> m] :
                    ps \in SeqsUpTo(PreviaVals, MaxPrevias), m \in MapasEstado}
  /\ result = NotDone
  /\ Materia = <<>>
  /\ Historial = <<>>
  /\ SinSesiones

Call_cumplePrevia ==
  /\ call.op = "cumplePrevia"
  /\ ~result.done
  /\ result' = Done(cumplePrevia(call.previaTipo, call.estadoPrev))
  /\ UNCHANGED <<call, Materia, Historial, auth>>

Call_evaluarMateria ==
  /\ call.op = "evaluarMateria"
  /\ ~result.done
  /\ result' = Done(evaluarMateria(call.materiaDoc, call.mapEstadoUsuario))
  /\ UNCHANGED <<call, Materia, Historial, auth>>

NextElegibilidad == Call_cumplePrevia \/ Call_evaluarMateria

SpecElegibilidad == InitElegibilidad /\ [][NextElegibilidad]_vars

(***************************************************************************)
(* Claims on elegibilidad.service.js                                       *)
(***************************************************************************)
\* the rule table of the prerequisite kinds, on a status or Undefined
TablaCumple(tipo, estado) ==
  \/ tipo = "CURSO" /\ estado \in {"CURSADO", "APROBADO"}
  \/ tipo = "EXAMEN" /\ estado = "APROBADO"

\* the status the history map holds for the target of prerequisite p
EstadoDeTarget(p, map) ==
  IF p.materia.kind = "null" THEN Undefined ELSE MapGet(map, p.materia._id)

TodasCumplidas(doc, map) ==
  \A k \in DOMAIN doc.previas :
    TablaCumple(doc.previas[k].tipo, EstadoDeTarget(doc.previas[k], map))

\* the name a reason gives to the target: its code when populated, else its id
NombreDeTarget(p) ==
  IF p.materia.kind = "doc" THEN p.materia.codigo ELSE p.materia._id

\* C6: cumplePrevia follows the rule table: CURSO is satisfied exactly by
\* CURSADO and APROBADO, EXAMEN exactly by APROBADO, an absent status and any
\* other kind by nothing.
C6_RuleTable ==
  DoneOp("cumplePrevia") =>
    result.value = TablaCumple(call.previaTipo, call.estadoPrev)

C6_Witness ==
  /\ DoneOp("cumplePrevia")
  /\ call.previaTipo = "EXAMEN" /\ call.estadoPrev = "CURSADO"
  /\ result.value = FALSE

\* C7: every prerequisite that is not satisfied adds a reason, so a course is
\* elegible only if all its prerequisites are satisfied, unknown kinds included.
C7_UnsatisfiedBlocks ==
  DoneOp("evaluarMateria") =>
    LET r == result.value
        unmet == {k \in DOMAIN r.previas : ~r.previas[k].cumplida}
    IN  /\ Len(r.motivos) >= Cardinality(unmet)
        /\ r.elegible => TodasCumplidas(call.materiaDoc, call.mapEstadoUsuario)

C9_ElegibleIffNoMotivos ==
  DoneOp("evaluarMateria") =>
    (result.value.elegible <=> result.value.motivos = <<>>)

C9_Witness ==
  /\ DoneOp("evaluarMateria")
  /\ Len(result.value.motivos) = 1
  /\ ~result.value.elegible

SoloExamenCursado ==
  /\ DoneOp("evaluarMateria")
  /\ Len(call.materiaDoc.previas) = 1
  /\ call.materiaDoc.previas[1].tipo = "EXAMEN"
  /\ EstadoDeTarget(call.materiaDoc.previas[1], call.mapEstadoUsuario) = "CURSADO"

\* C10 as stated: only prerequisite EXAMEN-type X, student CURSADO on X: not
\* elegible, and motivos is exactly one reason, which names X.
C10_OneReason ==
  SoloExamenCursado =>
    /\ ~result.value.elegible
    /\ result.value.motivos
         = <<MotivoExamen(NombreDeTarget(call.materiaDoc.previas[1]))>>

\* C10 amended: not elegible, and motivos holds exactly one reason naming X,
\* alone unless the status on the course itself is APROBADO, when the
\* already-approved reason precedes it.
C10_OneReasonForX ==
  SoloExamenCursado =>
    LET propio == MapGet(call.mapEstadoUsuario, call.materiaDoc._id)
        razon == MotivoExamen(NombreDeTarget(call.materiaDoc.previas[1]))
    IN  /\ ~result.value.elegible
        /\ result.value.motivos
             = IF propio = "APROBADO" THEN <<MotivoAprobada, razon>> ELSE <<razon>>

C10_Witness ==
  /\ SoloExamenCursado
  /\ call.materiaDoc.previas[1].materia.kind = "doc"
  /\ MapGet(call.mapEstadoUsuario, "y") = Undefined
  /\ result.value.motivos = <<MotivoExamen(codigoDe("x1"))>>

(***************************************************************************)
(* seleccion.service.js                                                    *)
(***************************************************************************)
\* Types.ObjectId.isValid: the well-formed identifiers
ObjectIds == {"m1", "m2", "m9", "u1"}

isValidObjectId_any(id) == TRUE

isValidObjectId_byLength(id) == Len(id) = 2

isValidObjectId(id) == id \in ObjectIds

\* [...new Set(materiaIds)]: first occurrences, in order
RECURSIVE uniqueFrom(_, _, _)
uniqueFrom(xs, k, acc) ==
  IF k > Len(xs) THEN acc
  ELSE uniqueFrom(xs, k + 1,
                  IF \E j \in DOMAIN acc : acc[j] = xs[k] THEN acc ELSE Append(acc, xs[k]))

unique_onlyUnrepeated(xs) ==
  SelectSeq(xs, LAMBDA x : Cardinality({k \in DOMAIN xs : xs[k] = x}) = 1)

unique(xs) == uniqueFrom(xs, 1, <<>>)

\* .populate("previas.materia", "codigo nombre semestre"): the target course's
\* fields, or null when no stored course has that identifier
populatePrevia(p, store) ==
  IF \E k \in DOMAIN store : store[k]._id = p.materia
    THEN LET t == store[CHOOSE k \in DOMAIN store : store[k]._id = p.materia]
         IN  [tipo |-> p.tipo,
              materia |-> [kind |-> "doc", _id |-> t._id, codigo |-> t.codigo,
                           nombre |-> t.nombre, semestre |-> t.semestre]]
    ELSE [tipo |-> p.tipo, materia |-> [kind |-> "null"]]

populate(doc, store) ==
  [doc EXCEPT !.previas = [k \in DOMAIN doc.previas |-> populatePrevia(doc.previas[k], store)]]

findMateriasIn_stubMissing(store, ids) ==
  LET found == SelectSeq(store, LAMBDA m : \E k \in DOMAIN ids : ids[k] = m._id)
      missing == SelectSeq(ids, LAMBDA id : \A k \in DOMAIN store : store[k]._id # id)
  IN  [k \in DOMAIN found |-> populate(found[k], store)]
        \o [k \in DOMAIN missing |->
              [_id |-> missing[k], codigo |-> "", nombre |-> "", semestre |-> 0,
               creditos |-> 0, previas |-> <<>>, horarios |-> <<>>]]

\* Materia.find({ _id: { $in: ids } }).populate(...).lean(), in store order
findMateriasIn(store, ids) ==
  LET found == SelectSeq(store, LAMBDA m : \E k \in DOMAIN ids : ids[k] = m._id)
  IN  [k \in DOMAIN found |-> populate(found[k], store)]

\* new Map(hs.map(h => [String(h.materia), h.estado])) over the entries of
\* the user: the last entry of a course wins
loadHistorialMap(historial, usuarioId) ==
  LET hs == SelectSeq(historial, LAMBDA h : h.usuario = usuarioId)
      keys == {hs[k].materia : k \in DOMAIN hs}
  IN  [id \in keys |->
         hs[CHOOSE k \in DOMAIN hs :
              hs[k].materia = id /\ \A j \in DOMAIN hs : hs[j].materia = id => j <= k].estado]

detallar(m, mapEstadoUsuario) ==
  LET evalRes == evaluarMateria(m, mapEstadoUsuario)
  IN  [materia |-> evalRes.materia, estadoActual |-> evalRes.estadoActual,
       elegible |-> evalRes.elegible, motivos |-> evalRes.motivos,
       previas |-> evalRes.previas,
       horarios |-> m.horarios,
       cargaHorasMateria |-> horasDesdeHorarios([array |-> TRUE, items |-> m.horarios])]

slotDe(materia, h) ==
  [materia |-> materia._id, codigo |-> materia.codigo, nombre |-> materia.nombre,
   dia |-> h.dia, inicio |-> h.inicio, fin |-> h.fin]

bucketKey_single(h) == "LUN"

\* the key of the day bucket a slot goes to: dayBuckets.get(h.dia)
bucketKey(h) == h.dia

\* dayBuckets as the list of [dia, slots] in the order the days were first set
bucketPush(dayBuckets, slot) ==
  IF \E b \in DOMAIN dayBuckets : dayBuckets[b].dia = bucketKey(slot)
    THEN [b \in DOMAIN dayBuckets |->
            IF dayBuckets[b].dia = bucketKey(slot)
              THEN [dayBuckets[b] EXCEPT !.slots = Append(@, slot)]
              ELSE dayBuckets[b]]
    ELSE Append(dayBuckets, [dia |-> bucketKey(slot), slots |-> <<slot>>])

RECURSIVE bucketHorarios(_, _, _)
bucketHorarios(dayBuckets, det, k) ==
  IF k > Len(det.horarios) THEN dayBuckets
  ELSE bucketHorarios(bucketPush(dayBuckets, slotDe(det.materia, det.horarios[k])),
                      det, k + 1)

RECURSIVE bucketDetalladas(_, _, _)
bucketDetalladas(dayBuckets, detalladas, k) ==
  IF k > Len(detalladas) THEN dayBuckets
  ELSE bucketDetalladas(bucketHorarios(dayBuckets, detalladas[k], 1),
                        detalladas, k + 1)

RECURSIVE conflictosDe(_, _, _)
conflictosDe(dayBuckets, b, conflictos) ==
  IF b > Len(dayBuckets) THEN conflictos
  ELSE conflictosDe(dayBuckets, b + 1,
                    conflictos \o findDayConflicts(dayBuckets[b].slots))

contarElegibles_todas(detalladas) == Len(detalladas)

\* detalladas.filter(x => x.elegible).length
contarElegibles(detalladas) == Len(SelectSeq(detalladas, LAMBDA x : x.elegible))

\* Math.round(detalladas.reduce((acc, x) => acc + x.cargaHorasMateria, 0) * 100) / 100:
\* the per-course values are whole hundredths already, so the rounding of
\* their sum keeps it
cargaHorasDe(detalladas) ==
  LET acc[k \in 0..Len(detalladas)] ==
        IF k = 0 THEN 0 ELSE acc[k - 1] + detalladas[k].cargaHorasMateria
  IN  acc[Len(detalladas)]

resumenDe(detalladas, conflictos) ==
  LET seleccionadas == Len(detalladas)
      elegibles == contarElegibles(detalladas)
      noElegibles == seleccionadas - elegibles
  IN  [seleccionadas |-> seleccionadas, elegibles |-> elegibles,
       noElegibles |-> noElegibles, conflictos |-> Len(conflictos),
       cargaHoras |-> cargaHorasDe(detalladas)]

Throw(msg) == [ok |-> FALSE, error |-> msg]

\* the checks made before anything is fetched, and the normalised ids.
\* materiaIds is [array |-> TRUE, items |-> <<...>>] or, when the caller sent
\* something else than an array, [array |-> FALSE]
validarSeleccion(materiaIds, usuarioId) ==
  IF ~materiaIds.array \/ Len(materiaIds.items) = 0
    THEN Throw("materiaIds requerido (array no vacio)")
  ELSE IF ~isValidObjectId(usuarioId) THEN Throw("usuarioId invalido")
  ELSE LET ids == SelectSeq(unique(materiaIds.items), isValidObjectId)
       IN  IF Len(ids) = 0 THEN Throw("materiaIds invalidos")
           ELSE [ok |-> TRUE, ids |-> ids]

\* the collections the handler has queried when it returns or throws
queriesSeleccion(materiaIds, usuarioId) ==
  IF validarSeleccion(materiaIds, usuarioId).ok
    THEN <<"Materia.find", "Historial.find">>
    ELSE <<>>

verificarSeleccion(materiaIds, usuarioId, store, historial) ==
  LET v == validarSeleccion(materiaIds, usuarioId)
  IN  IF ~v.ok THEN v
      ELSE
        LET materias == findMateriasIn(store, v.ids)
            mapEstadoUsuario == loadHistorialMap(historial, usuarioId)
            detalladas == [k \in DOMAIN materias |->
                             detallar(materias[k], mapEstadoUsuario)]
            dayBuckets == bucketDetalladas(<<>>, detalladas, 1)
            conflictos == conflictosDe(dayBuckets, 1, <<>>)
        IN  [ok |-> TRUE,
             resumen |-> resumenDe(detalladas, conflictos),
             conflictos |-> conflictos,
             materias |-> detalladas]

(***************************************************************************)
(* elegibilidad.service.js: calcularElegibilidad                           *)
(***************************************************************************)
\* code units of the characters course codes are written with
CharCode(c) ==
  CASE c = "-" -> 45
    [] c = "1" -> 49
    [] c = "2" -> 50
    [] c = "9" -> 57
    [] c = "C" -> 67
    [] c = "D" -> 68
    [] c = "O" -> 79
    [] c = "m" -> 109

\* the store's order of two strings: by code unit, a proper prefix first
RECURSIVE strLess(_, _)
strLess(a, b) ==
  IF Len(b) = 0 THEN FALSE
  ELSE IF Len(a) = 0 THEN TRUE
  ELSE LET ca == CharCode(SubSeq(a, 1, 1))
           cb == CharCode(SubSeq(b, 1, 1))
       IN  IF ca # cb THEN ca < cb
           ELSE strLess(SubSeq(a, 2, Len(a)), SubSeq(b, 2, Len(b)))

sortKeyLess_semestreOnly(a, b) == a.semestre < b.semestre

\* .sort({ semestre: 1, codigo: 1 }): a comes strictly before b
sortKeyLess(a, b) ==
  \/ a.semestre < b.semestre
  \/ a.semestre = b.semestre /\ strLess(a.codigo, b.codigo)

\* the sort keeps documents of equal keys in the order they were scanned
RECURSIVE insertByKey(_, _)
insertByKey(sorted, x) ==
  IF sorted = <<>> THEN <<x>>
  ELSE LET last == sorted[Len(sorted)]
       IN  IF sortKeyLess(x, last)
           THEN Append(insertByKey(SubSeq(sorted, 1, Len(sorted) - 1), x), last)
           ELSE Append(sorted, x)

RECURSIVE sortByKeyFrom(_, _, _)
sortByKeyFrom(docs, k, sorted) ==
  IF k > Len(docs) THEN sorted
  ELSE sortByKeyFrom(docs, k + 1, insertByKey(sorted, docs[k]))

\* semestre is [given |-> FALSE] (undefined or null) or
\* [given |-> TRUE, value |-> n]; Number(n) of a number is n.
\* Materia.find(query).populate(...).sort(...).lean() over the documents in
\* the order the scan yields them
findMateriasSorted(scan, semestre) ==
  LET matched == SelectSeq(scan, LAMBDA m : ~semestre.given \/ m.semestre = semestre.value)
      sorted == sortByKeyFrom(matched, 1, <<>>)
  IN  [k \in DOMAIN sorted |-> populate(sorted[k], scan)]

contarNoElegibles_conPrevias(items) ==
  Len(SelectSeq(items, LAMBDA i : ~i.elegible /\ Len(i.previas) > 0))

\* items.filter(i => !i.elegible).length
contarNoElegibles(items) == Len(SelectSeq(items, LAMBDA i : ~i.elegible))

\* the collections calcularElegibilidad has queried when it returns or throws
queriesElegibilidad(usuarioId) ==
  IF isValidObjectId(usuarioId) THEN <<"Historial.find", "Materia.find">> ELSE <<>>

calcularElegibilidad(usuarioId, semestre, scan, historial) ==
  IF ~isValidObjectId(usuarioId) THEN Throw("usuarioId invalido")
  ELSE LET mapEstado == loadHistorialMap(historial, usuarioId)
           materias == findMateriasSorted(scan, semestre)
           items == [k \in DOMAIN materias |-> evaluarMateria(materias[k], mapEstado)]
       IN  [ok |-> TRUE,
            resumen |-> [totalMaterias |-> Len(items),
                         elegibles |-> contarElegibles(items),
                         noElegibles |-> contarNoElegibles(items)],
            items |-> items]

(***************************************************************************)
(* Spec: the stored courses and history, and the selection verifier        *)
(***************************************************************************)
\* slots a course may hold: each passed horarioValido when it was stored
HorarioVals ==
  {h \in {[dia |-> d, inicio |-> iv[1], fin |-> iv[2]] :
            d \in BucketDias,
            iv \in {<<"18:00", "20:00">>, <<"19:00", "21:00">>}} :
     horarioValido(h)}

\* m1 has no prerequisite, m2 requires the exam of m1
MateriaStores ==
  {<<[_id |-> "m1", codigo |-> codigoDe("m1"), nombre |-> nombreDe("m1"),
      semestre |-> 1, creditos |-> 8, previas |-> <<>>, horarios |-> h1],
     [_id |-> "m2", codigo |-> codigoDe("m2"), nombre |-> nombreDe("m2"),
      semestre |-> 2, creditos |-> 6,
      previas |-> <<[tipo |-> "EXAMEN", materia |-> "m1"]>>, horarios |-> h2]>> :
     h1 \in SeqsUpTo(HorarioVals, MaxHorarios),
     h2 \in SeqsUpTo(HorarioVals, MaxHorarios)}

HistorialStores ==
  {<<>>} \cup
  {<<[usuario |-> "u1", materia |-> "m1", estado |-> e]>> : e \in {"CURSADO", "APROBADO"}}

\* identifiers a request may carry: stored, well formed but not stored (m9),
\* malformed (zz)
IdVals == {"m1", "m2", "m9", "zz"}

MateriaIdsVals ==
  {[array |-> FALSE]} \cup
  {[array |-> TRUE, items |-> ids] : ids \in SeqsUpTo(IdVals, MaxIds)}

\* the semestre filter of a request: absent, a semester that has courses, or
\* one that has none
Semestres == {1, 2}

SemestreVals ==
  {[given |-> FALSE]} \cup {[given |-> TRUE, value |-> n] : n \in Semestres \cup {3}}

\* the orders in which a scan of the collection may yield its documents
ScanOrders(store) ==
  {[k \in DOMAIN store |-> store[f[k]]] :
     f \in {g \in [DOMAIN store -> DOMAIN store] :
              \A i \in DOMAIN store, j \in DOMAIN store : g[i] = g[j] => i = j}}

DoneWith(v, q) == [done |-> TRUE, value |-> v, queries |-> q]

Init ==
  /\ call = [op |-> "none"]
  /\ result = NotDone
  /\ Materia \in MateriaStores
  /\ Historial \in HistorialStores
  /\ SinSesiones

\* POST /api/seleccion/verificar. The handler reads the store and keeps no
\* state of its own, so a behaviour follows one request against each store.
Call_verificarSeleccion ==
  \E materiaIds \in MateriaIdsVals, usuarioId \in {"u1", "zz"} :
    /\ ~result.done
    /\ call' = [op |-> "verificarSeleccion", materiaIds |-> materiaIds,
                usuarioId |-> usuarioId]
    /\ result' = DoneWith(verificarSeleccion(materiaIds, usuarioId, Materia, Historial),
                          queriesSeleccion(materiaIds, usuarioId))
    /\ UNCHANGED <<Materia, Historial, auth>>

\* GET /api/elegibilidad. The find is handed to the sort in whatever order
\* the store scans the collection.
Call_calcularElegibilidad ==
  \E usuarioId \in {"u1", "zz"}, semestre \in SemestreVals, scan \in ScanOrders(Materia) :
    /\ ~result.done
    /\ call' = [op |-> "calcularElegibilidad", usuarioId |-> usuarioId,
                semestre |-> semestre]
    /\ result' = DoneWith(calcularElegibilidad(usuarioId, semestre, scan, Historial),
                          queriesElegibilidad(usuarioId))
    /\ UNCHANGED <<Materia, Historial, auth>>

Next == Call_verificarSeleccion \/ Call_calcularElegibilidad

Spec == Init /\ [][Next]_vars

(***************************************************************************)
(* SpecCatalogo: the same handlers over a catalogue of three courses, two  *)
(* of which may share a semester, with slots whose minutes are not a whole *)
(* number of hundredths of an hour                                         *)
(***************************************************************************)
HorarioCortos ==
  {h \in {[dia |-> "LUN", inicio |-> iv[1], fin |-> iv[2]] :
            iv \in {<<"18:00", "18:20">>, <<"18:10", "18:50">>}} :
     horarioValido(h)}

\* the code of m9 sorts between the codes of m1 and m2
CatalogoStores ==
  {<<[_id |-> "m1", codigo |-> "COD-m1", nombre |-> nombreDe("m1"),
      semestre |-> 1, creditos |-> 8, previas |-> <<>>, horarios |-> h1],
     [_id |-> "m2", codigo |-> "COD-m2", nombre |-> nombreDe("m2"),
      semestre |-> s2, creditos |-> 6,
      previas |-> <<[tipo |-> "EXAMEN", materia |-> "m1"]>>, horarios |-> h2],
     [_id |-> "m9", codigo |-> "COD-m12", nombre |-> nombreDe("m9"),
      semestre |-> s9, creditos |-> 4,
      previas |-> <<[tipo |-> "CURSO", materia |-> "m2"]>>, horarios |-> <<>>]>> :
     s2 \in Semestres, s9 \in Semestres,
     h1 \in SeqsUpTo(HorarioCortos, MaxHorarios),
     h2 \in SeqsUpTo(HorarioCortos, MaxHorarios)}

InitCatalogo ==
  /\ call = [op |-> "none"]
  /\ result = NotDone
  /\ Materia \in CatalogoStores
  /\ Historial \in HistorialStores
  /\ SinSesiones

SpecCatalogo == InitCatalogo /\ [][Next]_vars

(***************************************************************************)
(* Claims on seleccion.service.js                                          *)
(***************************************************************************)
Informe == call.op = "verificarSeleccion" /\ result.done /\ result.value.ok

\* the slots of the stored courses the request selects: <<course, index>>
SlotsSeleccionados ==
  UNION {{<<m, k>> : k \in DOMAIN Materia[m].horarios} :
           m \in {x \in DOMAIN Materia :
                    \E i \in DOMAIN call.materiaIds.items :
                      call.materiaIds.items[i] = Materia[x]._id}}

HorarioEn(mk) == Materia[mk[1]].horarios[mk[2]]

DescribeSlot(mk, d) ==
  /\ d.materia = Materia[mk[1]]._id
  /\ d.inicio = HorarioEn(mk).inicio
  /\ d.fin = HorarioEn(mk).fin

\* unordered pairs of selected slots of one day whose times overlap
ChoquesMismoDia ==
  {pq \in SlotsSeleccionados \X SlotsSeleccionados :
     /\ pq[1][1] < pq[2][1] \/ (pq[1][1] = pq[2][1] /\ pq[1][2] < pq[2][2])
     /\ HorarioEn(pq[1]).dia = HorarioEn(pq[2]).dia
     /\ SlotsSolapan(HorarioEn(pq[1]), HorarioEn(pq[2]))}

\* C2: every conflict of the report relates two selected slots of one day,
\* and dia is that day; slots of different days give no conflict, so there
\* are as many conflicts as overlapping same-day pairs.
C2_SameDayOnly ==
  Informe =>
    /\ \A k \in DOMAIN result.value.conflictos :
         LET r == result.value.conflictos[k]
         IN  \E p \in SlotsSeleccionados, q \in SlotsSeleccionados :
               /\ p # q
               /\ DescribeSlot(p, r.a) /\ DescribeSlot(q, r.b)
               /\ HorarioEn(p).dia = r.dia /\ HorarioEn(q).dia = r.dia
    /\ Len(result.value.conflictos) = Cardinality(ChoquesMismoDia)

\* both courses selected, the same time range on LUN and on SAB: no conflict
C2_Witness ==
  /\ Informe
  /\ Len(result.value.materias) = 2
  /\ Len(Materia[1].horarios) = 1 /\ Len(Materia[2].horarios) = 1
  /\ Materia[1].horarios[1].dia = "LUN" /\ Materia[2].horarios[1].dia = "SAB"
  /\ Materia[1].horarios[1].inicio = Materia[2].horarios[1].inicio
  /\ Materia[1].horarios[1].fin = Materia[2].horarios[1].fin
  /\ result.value.conflictos = <<>>

(***************************************************************************)
(* Claims on the summaries of the two reports                              *)
(***************************************************************************)
Elegibilidad == call.op = "calcularElegibilidad" /\ result.done /\ result.value.ok

\* C11: in the result of calcularElegibilidad totalMaterias is the number of
\* items, elegibles the number of items with elegible true, and
\* elegibles + noElegibles = totalMaterias.
C11_ResumenElegibilidad ==
  Elegibilidad =>
    LET r == result.value.resumen
        items == result.value.items
    IN  /\ r.totalMaterias = Len(items)
        /\ r.elegibles = Cardinality({k \in DOMAIN items : items[k].elegible})
        /\ r.elegibles + r.noElegibles = r.totalMaterias

\* three courses listed: the approved one (no prerequisite) and the one whose
\* prerequisite is unmet are not elegible, the third is
C11_Witness ==
  /\ Elegibilidad
  /\ ~call.semestre.given
  /\ result.value.resumen.totalMaterias = 3
  /\ result.value.resumen.elegibles = 1
  /\ result.value.resumen.noElegibles = 2
  /\ \E k \in DOMAIN result.value.items :
       /\ result.value.items[k].estadoActual = "APROBADO"
       /\ result.value.items[k].previas = <<>>
       /\ ~result.value.items[k].elegible

\* C12: in the report of verificarSeleccion seleccionadas is the length of
\* materias, elegibles the number of entries with elegible true,
\* elegibles + noElegibles = seleccionadas, and resumen.conflictos the length
\* of conflictos.
C12_ResumenSeleccion ==
  Informe =>
    LET r == result.value.resumen
        ms == result.value.materias
    IN  /\ r.seleccionadas = Len(ms)
        /\ r.elegibles = Cardinality({k \in DOMAIN ms : ms[k].elegible})
        /\ r.elegibles + r.noElegibles = r.seleccionadas
        /\ r.conflictos = Len(result.value.conflictos)

\* two courses, one elegible and one not, whose slots collide once
C12_Witness ==
  /\ Informe
  /\ result.value.resumen.seleccionadas = 2
  /\ result.value.resumen.elegibles = 1
  /\ result.value.resumen.noElegibles = 1
  /\ result.value.resumen.conflictos = 1
  /\ Len(result.value.conflictos) = 1

\* minutes/60 rounded to two decimals, in hundredths: the c with
\* c - 1/2 <= 100 * mins / 60 < c + 1/2
HorasDe(mins) == CHOOSE c \in 0..(2 * mins + 1) : 6 * c - 3 <= 10 * mins /\ 10 * mins < 6 * c + 3

\* declared minutes of the slots of a list, by the minute of the day of each end
MinutosDe(hs) ==
  LET acc[k \in 0..Len(hs)] ==
        IF k = 0 THEN 0
        ELSE acc[k - 1] + (MinutoDe(hs[k].fin) - MinutoDe(hs[k].inicio))
  IN  acc[Len(hs)]

\* the stored courses a request selects, as indexes of the store
Seleccionadas ==
  {x \in DOMAIN Materia :
     \E i \in DOMAIN call.materiaIds.items : call.materiaIds.items[i] = Materia[x]._id}

\* sum of f[x] over the selected courses
SumaSeleccionadas(f) ==
  LET acc[k \in 0..Len(Materia)] ==
        IF k = 0 THEN 0
        ELSE acc[k - 1] + (IF k \in Seleccionadas THEN f[k] ELSE 0)
  IN  acc[Len(Materia)]

MinutosPorMateria == [x \in DOMAIN Materia |-> MinutosDe(Materia[x].horarios)]

\* C13: resumen.cargaHoras is the hours value (minutes/60 rounded to two
\* decimals) of the plain sum of the declared minutes of every slot of every
\* selected course, overlapping time included.
\* (two courses of 40 minutes each are reported as 0.67 + 0.67 = 1.34 hours,
\* where 80 minutes are 1.33 hours)
C13_PlainSum ==
  Informe => result.value.resumen.cargaHoras = HorasDe(SumaSeleccionadas(MinutosPorMateria))

\* C14: horasDesdeHorarios adds the whole minutes of the slots without
\* rounding any of them and converts the total to hours rounded to two
\* decimals; an empty or a missing list gives 0; slots of 90 and 45 minutes
\* give 2.25.
C14_TotalThenRound ==
  DoneOp("horasDesdeHorarios") =>
    LET hs == IF call.horarios.array THEN call.horarios.items ELSE <<>>
    IN  /\ result.value = HorasDe(MinutosDe(hs))
        /\ hs = <<>> => result.value = 0
        /\ ( /\ Len(hs) = 2
             /\ {MinutosDe(<<hs[1]>>), MinutosDe(<<hs[2]>>)} = {90, 45} )
           => result.value = 225

\* slots of 20 minutes twice and of 40 minutes: 80 minutes are 1.33 hours,
\* where the rounded slots would add up to 1.33 only by chance; and 20 + 20
\* minutes are 0.67 hours, not 0.33 + 0.33
C14_Witness ==
  /\ DoneOp("horasDesdeHorarios")
  /\ call.horarios.array
  /\ Len(call.horarios.items) = 2
  /\ MinutosDe(<<call.horarios.items[1]>>) = 20
  /\ MinutosDe(<<call.horarios.items[2]>>) = 20
  /\ result.value = 67

(***************************************************************************)
(* Claims on the requests of verificarSeleccion and calcularElegibilidad   *)
(***************************************************************************)
Verificada == call.op = "verificarSeleccion" /\ result.done

\* a list without its repeated entries: the first occurrence of each stays
RECURSIVE SinRepetidos(_)
SinRepetidos(xs) ==
  IF xs = <<>> THEN <<>>
  ELSE LET init == SubSeq(xs, 1, Len(xs) - 1)
           last == xs[Len(xs)]
       IN  IF \E k \in DOMAIN init : init[k] = last
           THEN SinRepetidos(init)
           ELSE Append(SinRepetidos(init), last)

ConRepetidos ==
  /\ Verificada
  /\ call.materiaIds.array
  /\ Len(SinRepetidos(call.materiaIds.items)) < Len(call.materiaIds.items)

\* C15: a request whose list repeats an identifier gets the result of the
\* request with each identifier once (the same entries, the same conflicts),
\* and no course is listed twice.
C15_RepeatedIds ==
  ConRepetidos =>
    /\ result.value
         = verificarSeleccion([array |-> TRUE, items |-> SinRepetidos(call.materiaIds.items)],
                              call.usuarioId, Materia, Historial)
    /\ result.value.ok =>
         \A i \in DOMAIN result.value.materias, j \in DOMAIN result.value.materias :
           result.value.materias[i].materia._id = result.value.materias[j].materia._id
             => i = j

\* the stored course m1 sent twice: one entry, no conflict with itself
C15_Witness ==
  /\ ConRepetidos
  /\ call.materiaIds.items = <<"m1", "m1">>
  /\ Len(Materia[1].horarios) = 1
  /\ result.value.ok
  /\ Len(result.value.materias) = 1
  /\ result.value.conflictos = <<>>

\* the identifiers of the request that are stored, once each, in request order
IdsPedidos ==
  SelectSeq(SinRepetidos(call.materiaIds.items),
            LAMBDA id : \E x \in DOMAIN Materia : Materia[x]._id = id)

\* C16: the materias list of the report follows the order of the request's
\* identifiers (repetitions and unknown identifiers left out), whatever order
\* the store returns the courses in.
C16_InputOrder ==
  Informe =>
    [k \in DOMAIN result.value.materias |-> result.value.materias[k].materia._id]
      = IdsPedidos

\* C17: the request fails with an error, with nothing fetched and no report,
\* when materiaIds is not an array, is empty or holds no well-formed
\* identifier; malformed identifiers next to a well-formed one are dropped
\* and the request (of a well-formed user) succeeds.
C17_RejectsBadIds ==
  Verificada =>
    LET sinIds == \/ ~call.materiaIds.array
                  \/ \A k \in DOMAIN call.materiaIds.items : call.materiaIds.items[k] = "zz"
    IN  /\ sinIds => /\ ~result.value.ok
                     /\ DOMAIN result.value = {"ok", "error"}
                     /\ result.queries = <<>>
        /\ (~sinIds /\ call.usuarioId # "zz") =>
             /\ result.value.ok
             /\ result.queries # <<>>
             /\ \A k \in DOMAIN result.value.materias :
                  result.value.materias[k].materia._id # "zz"

\* only malformed identifiers from a well-formed user: the error of the
\* filter, before any fetch
C17_Witness ==
  /\ Verificada
  /\ call.usuarioId = "u1"
  /\ call.materiaIds.array
  /\ call.materiaIds.items = <<"zz">>
  /\ result.value = Throw("materiaIds invalidos")
  /\ result.queries = <<>>

\* C18: both calcularElegibilidad and verificarSeleccion answer a malformed
\* usuarioId with an error, raised before history or courses are fetched, and
\* the caller gets the error, not a result.
C18_RejectsBadUser ==
  (result.done /\ call.op \in {"calcularElegibilidad", "verificarSeleccion"}
     /\ call.usuarioId = "zz") =>
    /\ ~result.value.ok
    /\ DOMAIN result.value = {"ok", "error"}
    /\ result.queries = <<>>
    /\ call.op = "calcularElegibilidad" => result.value.error = "usuarioId invalido"
    /\ (call.op = "verificarSeleccion" /\ call.materiaIds.array
          /\ call.materiaIds.items # <<>>) => result.value.error = "usuarioId invalido"

\* a selection of stored courses from a malformed user
C18_Witness ==
  /\ Verificada
  /\ call.usuarioId = "zz"
  /\ call.materiaIds.array
  /\ call.materiaIds.items = <<"m1", "m2">>
  /\ result.value = Throw("usuarioId invalido")
  /\ result.queries = <<>>

PideNoGuardada ==
  /\ Verificada
  /\ call.usuarioId # "zz"
  /\ call.materiaIds.array
  /\ \E k \in DOMAIN call.materiaIds.items :
       /\ call.materiaIds.items[k] # "zz"
       /\ \A x \in DOMAIN Materia : Materia[x]._id # call.materiaIds.items[k]

\* C19: a well-formed identifier of no stored course raises no error: the
\* report has no entry and no conflict for it, and seleccionadas counts the
\* courses found only.
C19_UnknownIdSkipped ==
  PideNoGuardada =>
    /\ result.value.ok
    /\ \A k \in DOMAIN result.value.materias :
         \E x \in DOMAIN Materia : Materia[x]._id = result.value.materias[k].materia._id
    /\ \A k \in DOMAIN result.value.conflictos :
         \E x \in DOMAIN Materia, y \in DOMAIN Materia :
           /\ Materia[x]._id = result.value.conflictos[k].a.materia
           /\ Materia[y]._id = result.value.conflictos[k].b.materia
    /\ result.value.resumen.seleccionadas = Cardinality(Seleccionadas)
    /\ Len(result.value.materias) = Cardinality(Seleccionadas)

\* a stored course and one that is not stored: one course selected
C19_Witness ==
  /\ PideNoGuardada
  /\ call.materiaIds.items = <<"m1", "m9">>
  /\ result.value.ok
  /\ result.value.resumen.seleccionadas = 1
  /\ Len(result.value.materias) = 1

\* C20: calcularElegibilidad gives the same result for the same usuarioId and
\* semestre filter as long as nothing is written: whatever order the store
\* yields the courses in, the result is the one returned.
C20_Deterministic ==
  (call.op = "calcularElegibilidad" /\ result.done) =>
    \A scan \in ScanOrders(Materia) :
      calcularElegibilidad(call.usuarioId, call.semestre, scan, Historial) = result.value

\* the three courses in one semester: listed by code, m9 (COD-m12) before m2
C20_Witness ==
  /\ Elegibilidad
  /\ ~call.semestre.given
  /\ \A x \in DOMAIN Materia : Materia[x].semestre = 1
  /\ Len(result.value.items) = 3
  /\ result.value.items[1].materia._id = "m1"
  /\ result.value.items[2].materia._id = "m9"
  /\ result.value.items[3].materia._id = "m2"

(***************************************************************************)
(* SpecLectura: the two services over the stores, and findDayConflicts     *)
(* over the array its caller holds                                         *)
(***************************************************************************)
InitLectura ==
  \/ Init
  \/ InitHorario /\ call.op = "findDayConflicts"

NextLectura ==
  \/ call.op = "none" /\ Next
  \/ Call_findDayConflicts

SpecLectura == InitLectura /\ [][NextLectura]_vars

\* C21: calcularElegibilidad and verificarSeleccion leave the stored courses
\* and history entries as they were, whether they return or throw, and
\* findDayConflicts leaves the array it was given in its order.
C21_ReadOnly ==
  [][ /\ Materia' = Materia
      /\ Historial' = Historial
      /\ call.op = "findDayConflicts" => call'.daySlots = call.daySlots ]_vars

\* after findDayConflicts returned, its argument is still out of start order
C21_Witness ==
  /\ DoneOp("findDayConflicts")
  /\ Len(call.daySlots) = 2
  /\ call.daySlots[1].inicio = "19:00"
  /\ call.daySlots[2].inicio = "18:00"
  /\ Len(result.value) = 1

\* C22: no conflict record has a.materia = b.materia, even when one course
\* holds two overlapping slots on the day.
C22_DifferentCourses ==
  DoneOp("findDayConflicts") =>
    \A k \in DOMAIN result.value : result.value[k].a.materia # result.value[k].b.materia

\* the stable ascending order of a bucket: position -> index in the input
OrdenEstable(S) ==
  CHOOSE p \in [DOMAIN S -> DOMAIN S] :
    /\ \A i \in DOMAIN S, j \in DOMAIN S : p[i] = p[j] => i = j
    /\ \A i \in DOMAIN S, j \in DOMAIN S :
         i < j => \/ MinutoDe(S[p[i]].inicio) < MinutoDe(S[p[j]].inicio)
                  \/ /\ MinutoDe(S[p[i]].inicio) = MinutoDe(S[p[j]].inicio)
                     /\ p[i] < p[j]

\* the overlapping pairs i < j of a sequence, in the order (i, j)
RECURSIVE ParesEnOrden(_, _, _)
ParesEnOrden(T, i, j) ==
  IF i > Len(T) THEN <<>>
  ELSE IF j > Len(T) THEN ParesEnOrden(T, i + 1, i + 2)
  ELSE (IF SlotsSolapan(T[i], T[j]) THEN <<<<T[i], T[j]>>>> ELSE <<>>)
         \o ParesEnOrden(T, i, j + 1)

\* C28: findDayConflicts goes through the slots in ascending start, equal
\* starts in input order: in every record a starts no later than b, and the
\* records are the overlapping pairs (a, b) in the order of the position of a
\* and then of b in that sorted sequence.
C28_ScanOrder ==
  DoneOp("findDayConflicts") =>
    LET S == call.daySlots
        p == OrdenEstable(S)
        T == [k \in DOMAIN S |-> S[p[k]]]
        E == ParesEnOrden(T, 1, 2)
        R == result.value
    IN  /\ Len(R) = Len(E)
        /\ \A k \in DOMAIN R :
             /\ R[k].a = slotDescriptor(E[k][1])
             /\ R[k].b = slotDescriptor(E[k][2])
             /\ MinutoDe(R[k].a.inicio) <= MinutoDe(R[k].b.inicio)

\* two slots with the same start given after a later one: a is the one that
\* came first in the input, and its two records come in the order of b
C28_Witness ==
  /\ DoneOp("findDayConflicts")
  /\ Len(call.daySlots) = 3
  /\ call.daySlots[1].inicio = "19:00" /\ call.daySlots[1].fin = "20:00"
  /\ call.daySlots[2].inicio = "18:00" /\ call.daySlots[2].fin = "20:00"
  /\ call.daySlots[2].materia = "m2"
  /\ call.daySlots[3].inicio = "18:00" /\ call.daySlots[3].fin = "19:00"
  /\ call.daySlots[3].materia = "m1"
  /\ Len(result.value) = 2
  /\ result.value[1].a.materia = "m2" /\ result.value[1].b.materia = "m1"
  /\ result.value[2].a.materia = "m2" /\ result.value[2].b.inicio = "19:00"

(***************************************************************************)
(* Claims on the statuses the evaluator ranks                              *)
(***************************************************************************)
\* prerequisites of kind CURSO or EXAMEN whose target the student holds in
\* A_EXAMEN
PreviasAExamen ==
  {k \in DOMAIN call.materiaDoc.previas :
     /\ call.materiaDoc.previas[k].tipo \in {"CURSO", "EXAMEN"}
     /\ EstadoDeTarget(call.materiaDoc.previas[k], call.mapEstadoUsuario) = "A_EXAMEN"}

\* C29: a prerequisite (CURSO or EXAMEN) on a course held in A_EXAMEN is not
\* satisfied, as with PENDIENTE: the course requiring it is not elegible and
\* the prerequisite's detail shows estadoActual = A_EXAMEN.
C29_AExamenUnranked ==
  /\ DoneOp("cumplePrevia") /\ call.estadoPrev = "A_EXAMEN" /\ call.previaTipo \in {"CURSO", "EXAMEN"}
       => result.value = FALSE
  /\ DoneOp("evaluarMateria") =>
       \A k \in PreviasAExamen :
         /\ ~result.value.previas[k].cumplida
         /\ result.value.previas[k].estadoActual = "A_EXAMEN"
         /\ ~result.value.elegible

\* a course whose only prerequisite is the course (CURSO) of x1, held in
\* A_EXAMEN
C29_Witness ==
  /\ DoneOp("evaluarMateria")
  /\ Len(call.materiaDoc.previas) = 1
  /\ call.materiaDoc.previas[1].tipo = "CURSO"
  /\ PreviasAExamen = {1}
  /\ MapGet(call.mapEstadoUsuario, "y") = Undefined
  /\ ~result.value.elegible
  /\ Len(result.value.motivos) = 1

\* the order of the statuses; no entry counts as PENDIENTE
Rango(e) ==
  CASE e = Undefined -> 0
    [] e = "PENDIENTE" -> 0
    [] e = "EN_CURSO" -> 1
    [] e = "CURSADO" -> 2
    [] e = "APROBADO" -> 3

Ordenados == {Undefined, "PENDIENTE", "EN_CURSO", "CURSADO", "APROBADO"}

\* H2 is H1 with the status of courses other than y raised
Sube(H1, H2) ==
  /\ MapGet(H1, "y") = MapGet(H2, "y")
  /\ ("y" \in DOMAIN H1) = ("y" \in DOMAIN H2)
  /\ \A id \in {"x1", "x2"} :
       \/ /\ (id \in DOMAIN H1) = (id \in DOMAIN H2)
          /\ MapGet(H1, id) = MapGet(H2, id)
       \/ /\ MapGet(H1, id) \in Ordenados /\ MapGet(H2, id) \in Ordenados
          /\ Rango(MapGet(H1, id)) < Rango(MapGet(H2, id))

\* C30: a course that is elegible stays elegible when the statuses of other
\* courses are raised in the order PENDIENTE < EN_CURSO < CURSADO < APROBADO;
\* a status that satisfies an EXAMEN prerequisite satisfies a CURSO one.
C30_Monotone ==
  /\ (DoneOp("evaluarMateria") /\ result.value.elegible) =>
       \A H2 \in MapasEstado :
         Sube(call.mapEstadoUsuario, H2)
           => evaluarMateria(call.materiaDoc, H2).elegible
  /\ (DoneOp("cumplePrevia") /\ call.previaTipo = "EXAMEN" /\ result.value)
       => cumplePrevia("CURSO", call.estadoPrev)

\* elegible with the course of x1 CURSADO where a CURSO prerequisite asks for
\* it: x1 may still be raised to APROBADO
C30_Witness ==
  /\ DoneOp("evaluarMateria")
  /\ result.value.elegible
  /\ Len(call.materiaDoc.previas) = 1
  /\ call.materiaDoc.previas[1].tipo = "CURSO"
  /\ call.materiaDoc.previas[1].materia.kind = "doc"
  /\ MapGet(call.mapEstadoUsuario, "x1") = "CURSADO"

(***************************************************************************)
(* historial.controller.js: historial_create and historial_upsert          *)
(***************************************************************************)
uniqueIndexHit_never(store, usuario, materia) == FALSE

\* HistorialSchema.index({ usuario: 1, materia: 1 }, { unique: true }): the
\* store refuses (E11000) a second entry of the pair
uniqueIndexHit(store, usuario, materia) ==
  \E k \in DOMAIN store : store[k].usuario = usuario /\ store[k].materia = materia

\* the response and the store after POST /api/historial; create validates the
\* document against the schema before it is inserted
historialCreate(store, body) ==
  IF Falsy(body.usuario) \/ Falsy(body.materia) \/ Falsy(body.estado)
    THEN [status |-> 400, store |-> store]
  ELSE IF ~isValidObjectId(body.usuario) \/ ~isValidObjectId(body.materia)
    THEN [status |-> 400, store |-> store]
  ELSE IF body.estado \notin EstadosHistorial
    THEN [status |-> 500, store |-> store]
  ELSE IF uniqueIndexHit(store, body.usuario, body.materia)
    THEN [status |-> 409, store |-> store]
  ELSE [status |-> 201,
        store |-> Append(store, [usuario |-> body.usuario, materia |-> body.materia,
                                 estado |-> body.estado])]

\* the response and the store after POST /api/historial/upsert;
\* findOneAndUpdate runs no schema validator on the update
historialUpsert(store, user, body) ==
  IF Falsy(user) THEN [status |-> 401, store |-> store]
  ELSE IF Falsy(body.materia) \/ Falsy(body.estado)
    THEN [status |-> 400, store |-> store]
  ELSE IF ~isValidObjectId(body.materia)
    THEN [status |-> 400, store |-> store]
  ELSE IF \E k \in DOMAIN store : store[k].usuario = user /\ store[k].materia = body.materia
    THEN [status |-> 200,
          store |-> [k \in DOMAIN store |->
                       IF store[k].usuario = user /\ store[k].materia = body.materia
                         /\ \A j \in 1..(k - 1) :
                              ~(store[j].usuario = user /\ store[j].materia = body.materia)
                       THEN [store[k] EXCEPT !.estado = body.estado]
                       ELSE store[k]]]
  ELSE [status |-> 200,
        store |-> Append(store, [usuario |-> user, materia |-> body.materia,
                                 estado |-> body.estado])]

\* request values: a stored status, one outside the enum, none
EstadoVals == {"CURSADO", "APROBADO", "OTRO", ""}

CreateBodies ==
  {[usuario |-> u, materia |-> m, estado |-> e] :
     u \in {"u1", "zz", ""}, m \in {"m1", "m2", "zz"}, e \in EstadoVals}

UpsertBodies ==
  {[materia |-> m, estado |-> e] : m \in {"m1", "m2", "zz", ""}, e \in EstadoVals}

InitHistorial ==
  /\ call = [op |-> "none"]
  /\ result = NotDone
  /\ Materia = <<>>
  /\ Historial = <<>>
  /\ SinSesiones

historial_create ==
  \E body \in CreateBodies :
    LET r == historialCreate(Historial, body)
    IN  /\ call' = [op |-> "historial_create", body |-> body]
        /\ result' = Done([status |-> r.status])
        /\ Historial' = r.store
        /\ UNCHANGED <<Materia, auth>>

\* req.user is set by the authentication middleware, or absent
historial_upsert ==
  \E user \in {"u1", ""}, body \in UpsertBodies :
    LET r == historialUpsert(Historial, user, body)
    IN  /\ call' = [op |-> "historial_upsert", user |-> user, body |-> body]
        /\ result' = Done([status |-> r.status])
        /\ Historial' = r.store
        /\ UNCHANGED <<Materia, auth>>

NextHistorial == historial_create \/ historial_upsert

SpecHistorial == InitHistorial /\ [][NextHistorial]_vars

\* the store holds an entry of the pair
TieneEntrada(u, m) ==
  \E k \in DOMAIN Historial : Historial[k].usuario = u /\ Historial[k].materia = m

UnaPorPar ==
  \A i \in DOMAIN Historial, j \in DOMAIN Historial :
    (Historial[i].usuario = Historial[j].usuario
       /\ Historial[i].materia = Historial[j].materia) => i = j

\* the step is a historial_create for a pair that has an entry
CreaRepetido ==
  /\ call'.op = "historial_create"
  /\ TieneEntrada(call'.body.usuario, call'.body.materia)

\* the step is a historial_upsert for a pair that has an entry
UpsertExistente ==
  /\ call'.op = "historial_upsert"
  /\ TieneEntrada(call'.user, call'.body.materia)

EntradaActualizada ==
  /\ result'.value.status = 200
  /\ Len(Historial') = Len(Historial)
  /\ \A k \in DOMAIN Historial :
       Historial'[k] =
         IF Historial[k].usuario = call'.user /\ Historial[k].materia = call'.body.materia
         THEN [Historial[k] EXCEPT !.estado = call'.body.estado]
         ELSE Historial[k]

Lista(xs) == [array |-> TRUE, items |-> xs]
Ausente == [array |-> FALSE]

previaValida(p) == p.tipo \in {"CURSO", "EXAMEN"} /\ isValidObjectId(p.materia)

findById(store, id) ==
  IF \E k \in DOMAIN store : store[k]._id = id
    THEN [found |-> TRUE, k |-> CHOOSE k \in DOMAIN store : store[k]._id = id]
    ELSE [found |-> FALSE]

\* the response and the store after POST /api/materias; newId is the _id the
\* store gives the document
materiaCreate(store, body, newId) ==
  LET horarios == orEmpty(body.horarios)
      previas == orEmpty(body.previas)
  IN  IF Falsy(body.codigo) \/ Falsy(body.nombre) THEN [status |-> 400, store |-> store]
      ELSE IF \E k \in DOMAIN horarios : ~horarioValido(horarios[k])
        THEN [status |-> 400, store |-> store]
      ELSE IF \E k \in DOMAIN previas : ~previaValida(previas[k])
        THEN [status |-> 400, store |-> store]
      ELSE IF \E k \in DOMAIN store : store[k].codigo = body.codigo
        THEN [status |-> 409, store |-> store]
      ELSE [status |-> 201,
            store |-> Append(store,
                        [_id |-> newId, codigo |-> body.codigo, nombre |-> body.nombre,
                         semestre |-> body.semestre, creditos |-> body.creditos,
                         previas |-> previas, horarios |-> horarios])]

\* PUT /api/materias/:id
materiaUpdate(store, id, body) ==
  IF ~isValidObjectId(id) THEN [status |-> 400, store |-> store]
  ELSE LET f == findById(store, id)
       IN  IF ~f.found THEN [status |-> 404, store |-> store]
           ELSE IF body.horarios.array
                   /\ \E k \in DOMAIN body.horarios.items : ~horarioValido(body.horarios.items[k])
             THEN [status |-> 400, store |-> store]
           ELSE IF body.previas.array
                   /\ \E k \in DOMAIN body.previas.items : ~previaValida(body.previas.items[k])
             THEN [status |-> 400, store |-> store]
           ELSE [status |-> 200,
                 store |-> [store EXCEPT ![f.k] =
                              [@ EXCEPT
                                 !.horarios = IF body.horarios.array
                                              THEN body.horarios.items ELSE @,
                                 !.previas = IF body.previas.array
                                             THEN body.previas.items ELSE @]]]

\* POST /api/materias/:id/previas
materiaAddPrevia(store, id, body) ==
  IF ~isValidObjectId(id) \/ ~isValidObjectId(body.materiaPreviaId)
    THEN [status |-> 400, store |-> store]
  ELSE IF body.tipo \notin {"CURSO", "EXAMEN"} THEN [status |-> 400, store |-> store]
  ELSE IF id = body.materiaPreviaId THEN [status |-> 400, store |-> store]
  ELSE LET f == findById(store, id)
       IN  IF ~f.found THEN [status |-> 404, store |-> store]
           ELSE IF \E j \in DOMAIN store[f.k].previas :
                     /\ store[f.k].previas[j].tipo = body.tipo
                     /\ store[f.k].previas[j].materia = body.materiaPreviaId
             THEN [status |-> 200, store |-> store]
           ELSE [status |-> 200,
                 store |-> [store EXCEPT ![f.k].previas =
                              Append(@, [tipo |-> body.tipo,
                                         materia |-> body.materiaPreviaId])]]

\* DELETE /api/materias/:id/previas
materiaRemovePrevia(store, id, body) ==
  IF ~isValidObjectId(id) \/ ~isValidObjectId(body.materiaPreviaId)
    THEN [status |-> 400, store |-> store]
  ELSE IF body.tipo \notin {"CURSO", "EXAMEN"} THEN [status |-> 400, store |-> store]
  ELSE LET f == findById(store, id)
       IN  IF ~f.found THEN [status |-> 404, store |-> store]
           ELSE [status |-> 200,
                 store |-> [store EXCEPT ![f.k].previas =
                              SelectSeq(@, LAMBDA q : ~(q.tipo = body.tipo
                                                         /\ q.materia = body.materiaPreviaId))]]

\* POST /api/materias/:id/horarios
materiaAddHorario(store, id, body) ==
  IF ~isValidObjectId(id) THEN [status |-> 400, store |-> store]
  ELSE IF ~horarioValido(body) THEN [status |-> 400, store |-> store]
  ELSE LET f == findById(store, id)
       IN  IF ~f.found THEN [status |-> 404, store |-> store]
           ELSE IF \E j \in DOMAIN store[f.k].horarios : store[f.k].horarios[j] = body
             THEN [status |-> 200, store |-> store]
           ELSE [status |-> 200,
                 store |-> [store EXCEPT ![f.k].horarios = Append(@, body)]]

\* DELETE /api/materias/:id/horarios
materiaRemoveHorario(store, id, body) ==
  IF ~isValidObjectId(id) THEN [status |-> 400, store |-> store]
  ELSE IF ~horarioValido(body) THEN [status |-> 400, store |-> store]
  ELSE LET f == findById(store, id)
       IN  IF ~f.found THEN [status |-> 404, store |-> store]
           ELSE [status |-> 200,
                 store |-> [store EXCEPT ![f.k].horarios =
                              SelectSeq(@, LAMBDA x : x # body)]]

(***************************************************************************)
(* SpecPrevias, SpecHorarios: requests to the materias routes, one at a    *)
(* time: a request arrives, its handler runs, the response is sent         *)
(***************************************************************************)
\* ids in the path: two courses, a well-formed id of no course, a malformed id
IdsRuta == {"m1", "m2", "m9", "zz"}
CodigosBody == {"", codigoDe("m1"), codigoDe("m2")}

\* prerequisites in a body: of the course m1 itself, of m2, of a type that
\* does not exist, of a malformed id
PreviaReqVals ==
  {[tipo |-> "CURSO", materia |-> "m1"], [tipo |-> "CURSO", materia |-> "m2"],
   [tipo |-> "OTRO", materia |-> "m1"], [tipo |-> "CURSO", materia |-> "zz"]}
PreviasReq == {Ausente} \cup {Lista(ps) : ps \in SeqsUpTo(PreviaReqVals, MaxPrevias)}

\* slots in a body: two that overlap, and one each with a day that does not
\* exist, an hour that does not exist, an inverted and an empty range
HorarioReqVals ==
  {[dia |-> "LUN", inicio |-> "18:00", fin |-> "20:00"],
   [dia |-> "LUN", inicio |-> "19:00", fin |-> "21:00"],
   [dia |-> "DOM", inicio |-> "18:00", fin |-> "20:00"],
   [dia |-> "LUN", inicio |-> "24:00", fin |-> "25:00"],
   [dia |-> "LUN", inicio |-> "20:00", fin |-> "18:00"],
   [dia |-> "LUN", inicio |-> "18:00", fin |-> "18:00"]}
HorariosReq == {Ausente} \cup {Lista(hs) : hs \in SeqsUpTo(HorarioReqVals, MaxHorarios)}

\* the _id the store gives the next document
IdsNuevos == {"m2"}
HayIdNuevo(store) == \E id \in IdsNuevos : \A k \in DOMAIN store : store[k]._id # id
NuevoId(store) == CHOOSE id \in IdsNuevos : \A k \in DOMAIN store : store[k]._id # id

CreateBody(codigo, horarios, previas) ==
  [codigo |-> codigo, nombre |-> nombreDe("m2"), creditos |-> 6, semestre |-> 2,
   horarios |-> horarios, previas |-> previas]

\* room left in the list of a stored course (the lists of the model are bounded)
Cabe(store, id, campo, max) ==
  \A k \in DOMAIN store : store[k]._id = id => Len(store[k][campo]) < max

InitMaterias ==
  /\ call = [op |-> "none"]
  /\ result = NotDone
  /\ Materia = <<[_id |-> "m1", codigo |-> codigoDe("m1"), nombre |-> nombreDe("m1"),
                  semestre |-> 1, creditos |-> 8, previas |-> <<>>, horarios |-> <<>>]>>
  /\ Historial = <<>>
  /\ SinSesiones

RecibePrevias ==
  /\ call.op = "none"
  /\ \/ /\ HayIdNuevo(Materia)
        /\ \E c \in CodigosBody, ps \in PreviasReq :
             call' = [op |-> "materia_create", body |-> CreateBody(c, Ausente, ps)]
     \/ \E id \in IdsRuta, ps \in PreviasReq :
          call' = [op |-> "materia_update", id |-> id,
                   body |-> [horarios |-> Ausente, previas |-> ps]]
     \/ \E id \in IdsRuta, t \in {"CURSO", "OTRO"}, m \in {"m1", "m2", "zz"} :
          /\ Cabe(Materia, id, "previas", MaxPrevias)
          /\ call' = [op |-> "materia_add_previa", id |-> id,
                      body |-> [tipo |-> t, materiaPreviaId |-> m]]
     \/ \E id \in IdsRuta, t \in {"CURSO", "OTRO"}, m \in {"m1", "m2", "zz"} :
          call' = [op |-> "materia_remove_previa", id |-> id,
                   body |-> [tipo |-> t, materiaPreviaId |-> m]]
  /\ UNCHANGED <<result, Materia, Historial, auth>>

RecibeHorarios ==
  /\ call.op = "none"
  /\ \/ /\ HayIdNuevo(Materia)
        /\ \E c \in CodigosBody, hs \in HorariosReq :
             call' = [op |-> "materia_create", body |-> CreateBody(c, hs, Ausente)]
     \/ \E id \in IdsRuta, hs \in HorariosReq :
          call' = [op |-> "materia_update", id |-> id,
                   body |-> [horarios |-> hs, previas |-> Ausente]]
     \/ \E id \in IdsRuta, h \in HorarioReqVals :
          /\ Cabe(Materia, id, "horarios", MaxHorarios)
          /\ call' = [op |-> "materia_add_horario", id |-> id, body |-> h]
     \/ \E id \in IdsRuta, h \in HorarioReqVals :
          call' = [op |-> "materia_remove_horario", id |-> id, body |-> h]
  /\ UNCHANGED <<result, Materia, Historial, auth>>

Responder(r) ==
  /\ result' = Done([status |-> r.status])
  /\ Materia' = r.store
  /\ UNCHANGED <<call, Historial, auth>>

materia_create ==
  /\ call.op = "materia_create" /\ ~result.done
  /\ Responder(materiaCreate(Materia, call.body, NuevoId(Materia)))

materia_update ==
  /\ call.op = "materia_update" /\ ~result.done
  /\ Responder(materiaUpdate(Materia, call.id, call.body))

materia_add_previa ==
  /\ call.op = "materia_add_previa" /\ ~result.done
  /\ Responder(materiaAddPrevia(Materia, call.id, call.body))

materia_remove_previa ==
  /\ call.op = "materia_remove_previa" /\ ~result.done
  /\ Responder(materiaRemovePrevia(Materia, call.id, call.body))

materia_add_horario ==
  /\ call.op = "materia_add_horario" /\ ~result.done
  /\ Responder(materiaAddHorario(Materia, call.id, call.body))

materia_remove_horario ==
  /\ call.op = "materia_remove_horario" /\ ~result.done
  /\ Responder(materiaRemoveHorario(Materia, call.id, call.body))

\* the response is sent and the server waits for the next request
Responde ==
  /\ result.done
  /\ call' = [op |-> "none"]
  /\ result' = NotDone
  /\ UNCHANGED <<Materia, Historial, auth>>

NextPrevias ==
  \/ RecibePrevias
  \/ materia_create
  \/ materia_update
  \/ materia_add_previa
  \/ materia_remove_previa
  \/ Responde

SpecPrevias == InitMaterias /\ [][NextPrevias]_vars

NextHorarios ==
  \/ RecibeHorarios
  \/ materia_create
  \/ materia_update
  \/ materia_add_horario
  \/ materia_remove_horario
  \/ Responde

SpecHorarios == InitMaterias /\ [][NextHorarios]_vars

(***************************************************************************)
(* Claims on the materias controller                                       *)
(***************************************************************************)
\* C26: after any sequence of materia_create, materia_update,
\* materia_add_previa and materia_remove_previa no stored course has a
\* prerequisite whose target is the course itself.
C26_NoSelfPrevia ==
  \A k \in DOMAIN Materia : \A j \in DOMAIN Materia[k].previas :
    Materia[k].previas[j].materia # Materia[k]._id

\* a slot as the catalogue requires it: a day of DIAS, HH:mm times, start
\* strictly before end
SlotBien(h) ==
  /\ h.dia \in DIAS
  /\ isHHMM(h.inicio) /\ isHHMM(h.fin)
  /\ toMinutes(h.inicio) < toMinutes(h.fin)

SlotsGuardadosBien ==
  \A k \in DOMAIN Materia : \A j \in DOMAIN Materia[k].horarios :
    SlotBien(Materia[k].horarios[j])

\* the slots a request carries
SlotsDeRequest(c) ==
  IF c.op \in {"materia_create", "materia_update"} THEN orEmpty(c.body.horarios)
  ELSE IF c.op \in {"materia_add_horario", "materia_remove_horario"} THEN <<c.body>>
  ELSE <<>>

LlevaSlotMalo(c) == \E k \in DOMAIN SlotsDeRequest(c) : ~SlotBien(SlotsDeRequest(c)[k])

Guardada(id) == \E k \in DOMAIN Materia : Materia[k]._id = id

\* C27 as stated: every stored slot is well formed, and a request carrying a
\* slot that is not answers 400 and leaves the courses unchanged.
C27_SlotsValid ==
  /\ []SlotsGuardadosBien
  /\ [][(~result.done /\ result'.done /\ LlevaSlotMalo(call))
          => (result'.value.status = 400 /\ Materia' = Materia)]_vars

\* C27 amended: every stored slot is well formed, and a request carrying a
\* slot that is not leaves the courses unchanged and answers 400, except
\* that materia_update answers 404 when its well-formed id is of no stored
\* course.
C27_SlotsValidOr404 ==
  /\ []SlotsGuardadosBien
  /\ [][(~result.done /\ result'.done /\ LlevaSlotMalo(call))
          => /\ Materia' = Materia
             /\ IF call.op = "materia_update" /\ isValidObjectId(call.id)
                   /\ ~Guardada(call.id)
                  THEN result'.value.status = 404
                  ELSE result'.value.status = 400]_vars

C27_Witness ==
  /\ DoneOp("materia_update")
  /\ Guardada(call.id)
  /\ LlevaSlotMalo(call)
  /\ result.value.status = 400

(***************************************************************************)
(* Auth controller: rotation and revocation of refresh tokens              *)
(***************************************************************************)
MaxNow == 2

\* JWT_REFRESH_TTL, in seconds (a configured value; short, so that a token
\* expires within the run)
RefreshTTL == 2

Usuarios == {"u1"}
Procs == {"p1", "p2"}

\* a JWT is a function of its payload and of the secret: two tokens signed
\* for one user within one second are the same string
Jwt(sub, iat) == [firma |-> "ok", sub |-> sub, type |-> "refresh", iat |-> iat]
NoToken == [firma |-> "falta", sub |-> "", type |-> "", iat |-> 0]
Forged == [firma |-> "mala", sub |-> "u1", type |-> "refresh", iat |-> 0]

signRefreshToken(user, t) == [token |-> Jwt(user, t), exp |-> t + RefreshTTL]

\* jwt.verify: the signature and the exp of the token
jwtVerify(token, t) == token.firma = "ok" /\ t < token.iat + RefreshTTL

\* RefreshToken.findOne({token}): the position of the match, 0 for null (the
\* index on token is unique)
findOneToken(store, token) ==
  IF \E k \in DOMAIN store : store[k].token = token
    THEN CHOOSE k \in DOMAIN store : store[k].token = token
    ELSE 0

\* RefreshToken.findOne({token, usuario})
findOneTokenDe(store, token, usuario) ==
  LET k == findOneToken(store, token)
  IN  IF k # 0 /\ store[k].usuario = usuario THEN k ELSE 0

\* the test of auth_refresh on the stored token
rechazado_sinRevocado(store, k, t) == k = 0 \/ store[k].expiraEn <= t

rechazado(store, k, t) == k = 0 \/ store[k].revocadoEn \/ store[k].expiraEn <= t

Idle ==
  [op |-> "none", pc |-> "idle", token |-> NoToken, found |-> 0,
   nuevo |-> NoToken, status |-> 0, despues |-> FALSE]

Answer(p, status) == reqs' = [reqs EXCEPT ![p].pc = "done", ![p].status = status]

\* the tokens a client can send: none, one it made up, or one it was issued
TokensDeCliente == {NoToken, Forged} \cup {RefreshToken[k].token : k \in DOMAIN RefreshToken}

\* the session a login opened at second 0
Sesion(usuario) ==
  [usuario |-> usuario, token |-> Jwt(usuario, 0),
   expiraEn |-> RefreshTTL, revocadoEn |-> FALSE]

\* one session, of u1 or of a user that was deleted since the login
InitAuth ==
  /\ call = [op |-> "none"]
  /\ result = NotDone
  /\ Materia = <<>>
  /\ Historial = <<>>
  /\ RefreshToken \in {<<Sesion("u1")>>, <<Sesion("u9")>>}
  /\ now = 0
  /\ reqs = [p \in Procs |-> Idle]
  /\ usados = {}

\* auth_refresh up to its first await: the token of the request, jwt.verify
refresh_start(p) ==
  /\ reqs[p].pc \in {"idle", "done"}
  /\ \E token \in TokensDeCliente :
       LET r == [Idle EXCEPT !.op = "auth_refresh", !.token = token,
                             !.despues = token \in usados]
       IN  reqs' = [reqs EXCEPT ![p] =
                      IF token = NoToken THEN [r EXCEPT !.pc = "done", !.status = 400]
                      ELSE IF ~jwtVerify(token, now) \/ token.type # "refresh"
                        THEN [r EXCEPT !.pc = "done", !.status = 401]
                      ELSE [r EXCEPT !.pc = "findOne"]]
  /\ UNCHANGED <<call, result, Materia, Historial, RefreshToken, now, usados>>

\* RefreshToken.findOne({token, usuario: payload.sub}) and the test on it
refresh_findOne(p) ==
  /\ reqs[p].op = "auth_refresh" /\ reqs[p].pc = "findOne"
  /\ LET token == reqs[p].token
         k == findOneTokenDe(RefreshToken, token, token.sub)
     IN  IF rechazado(RefreshToken, k, now)
           THEN Answer(p, 401)
           ELSE reqs' = [reqs EXCEPT ![p].pc = "save", ![p].found = k]
  /\ UNCHANGED <<call, result, Materia, Historial, RefreshToken, now, usados>>

\* found.revocadoEn = new Date(); await found.save()
refresh_save(p) ==
  /\ reqs[p].op = "auth_refresh" /\ reqs[p].pc = "save"
  /\ RefreshToken' = [RefreshToken EXCEPT ![reqs[p].found].revocadoEn = TRUE]
  /\ reqs' = [reqs EXCEPT ![p].pc = "findById"]
  /\ UNCHANGED <<call, result, Materia, Historial, now, usados>>

\* Usuario.findById(payload.sub), then the new tokens are signed
refresh_findById(p) ==
  /\ reqs[p].op = "auth_refresh" /\ reqs[p].pc = "findById"
  /\ IF reqs[p].token.sub \notin Usuarios
       THEN Answer(p, 401)
       ELSE reqs' = [reqs EXCEPT ![p].pc = "create",
                                 ![p].nuevo = signRefreshToken(reqs[p].token.sub, now).token]
  /\ UNCHANGED <<call, result, Materia, Historial, RefreshToken, now, usados>>

\* persistRefreshToken: RefreshToken.create under the unique index on token;
\* its error is caught and answered 401
refresh_create(p) ==
  /\ reqs[p].op = "auth_refresh" /\ reqs[p].pc = "create"
  /\ IF \E k \in DOMAIN RefreshToken : RefreshToken[k].token = reqs[p].nuevo
       THEN /\ Answer(p, 401)
            /\ UNCHANGED <<RefreshToken, usados>>
       ELSE /\ RefreshToken' =
                 Append(RefreshToken,
                        [usuario |-> reqs[p].token.sub, token |-> reqs[p].nuevo,
                         expiraEn |-> reqs[p].nuevo.iat + RefreshTTL,
                         revocadoEn |-> FALSE])
            /\ Answer(p, 200)
            /\ usados' = usados \cup {reqs[p].token}
  /\ UNCHANGED <<call, result, Materia, Historial, now>>

\* auth_logout up to its first await
logout_start(p) ==
  /\ reqs[p].pc \in {"idle", "done"}
  /\ \E token \in TokensDeCliente :
       LET r == [Idle EXCEPT !.op = "auth_logout", !.token = token]
       IN  reqs' = [reqs EXCEPT ![p] =
                      IF token = NoToken THEN [r EXCEPT !.pc = "done", !.status = 400]
                      ELSE [r EXCEPT !.pc = "findOne"]]
  /\ UNCHANGED <<call, result, Materia, Historial, RefreshToken, now, usados>>

\* RefreshToken.findOne({token}); res.json({ok: true}) when there is
\* nothing to revoke
logout_findOne(p) ==
  /\ reqs[p].op = "auth_logout" /\ reqs[p].pc = "findOne"
  /\ LET k == findOneToken(RefreshToken, reqs[p].token)
     IN  IF k # 0 /\ ~RefreshToken[k].revocadoEn
           THEN /\ reqs' = [reqs EXCEPT ![p].pc = "save", ![p].found = k]
                /\ UNCHANGED usados
           ELSE /\ Answer(p, 200)
                /\ usados' = usados \cup {reqs[p].token}
  /\ UNCHANGED <<call, result, Materia, Historial, RefreshToken, now>>

\* found.revocadoEn = new Date(); await found.save(); res.json({ok: true})
logout_save(p) ==
  /\ reqs[p].op = "auth_logout" /\ reqs[p].pc = "save"
  /\ RefreshToken' = [RefreshToken EXCEPT ![reqs[p].found].revocadoEn = TRUE]
  /\ Answer(p, 200)
  /\ usados' = usados \cup {reqs[p].token}
  /\ UNCHANGED <<call, result, Materia, Historial, now>>

\* a second passes
Tick ==
  /\ now < MaxNow
  /\ now' = now + 1
  /\ UNCHANGED <<call, result, Materia, Historial, RefreshToken, reqs, usados>>

NextAuth ==
  \/ \E p \in Procs : refresh_start(p)
  \/ \E p \in Procs : refresh_findOne(p)
  \/ \E p \in Procs : refresh_save(p)
  \/ \E p \in Procs : refresh_findById(p)
  \/ \E p \in Procs : refresh_create(p)
  \/ \E p \in Procs : logout_start(p)
  \/ \E p \in Procs : logout_findOne(p)
  \/ \E p \in Procs : logout_save(p)
  \/ Tick

SpecAuth == InitAuth /\ [][NextAuth]_vars

(***************************************************************************)
(* Claims on the auth controller                                           *)
(***************************************************************************)
\* C23: once an auth_refresh with the token T has succeeded, or an
\* auth_logout with T has been answered, every auth_refresh with T that
\* starts later is answered 401 and issues no token.
C23_UsedTokenRejected ==
  \A p \in DOMAIN reqs :
    (reqs[p].op = "auth_refresh" /\ reqs[p].despues)
      => /\ reqs[p].pc \in {"findOne", "done"}
         /\ reqs[p].nuevo = NoToken
         /\ reqs[p].pc = "done" => reqs[p].status = 401

C23_Witness ==
  \E p \in DOMAIN reqs :
    /\ reqs[p].op = "auth_refresh" /\ reqs[p].despues
    /\ reqs[p].token = Jwt("u1", 0)
    /\ reqs[p].pc = "done" /\ reqs[p].status = 401
    /\ \E k \in DOMAIN RefreshToken : RefreshToken[k].token = Jwt("u1", 1)

\* C24: of two auth_refresh requests with the same valid token whose store
\* steps interleave in any order, at most one succeeds.
C24_AtMostOneSucceeds ==
  \A p \in DOMAIN reqs : \A q \in DOMAIN reqs :
    (/\ p # q
     /\ reqs[p].op = "auth_refresh" /\ reqs[q].op = "auth_refresh"
     /\ reqs[p].token = reqs[q].token
     /\ reqs[p].pc = "done" /\ reqs[q].pc = "done")
      => ~(reqs[p].status = 200 /\ reqs[q].status = 200)

====
